---- MODULE Spec2Model ----
(***************************************************************************)
(* Document intake of the medical-record bot: the Telegram webhook         *)
(* (batch collector, intake orchestrator, pending-decision resolution),    *)
(* the duplicate detector and the measurement extractor, modelled over a   *)
(* shared record store (documents, measurements, pendingDocument,          *)
(* batchPending).                                                          *)
(*                                                                         *)
(* Text is a sequence of characters.  A character is an atom written as an *)
(* ASCII token: a Cyrillic letter by its transliteration ("g", "zh"), its  *)
(* capital by the capitalised token ("G", "Zh"); a Latin letter carries    *)
(* the prefix "_" ("_h" = h, "_H" = H).  Time is counted in hours; a       *)
(* calendar day is 24 of them.                                             *)
(*                                                                         *)
(* The webhook is the revision with the diary, the taxonomy and the        *)
(* measurements.  Except in FailSpec the services it calls (the messenger, *)
(* the blob store, the analyzer) answer, and an operation of the record    *)
(* store fails only where the row it names is gone (delete and update of a *)
(* missing row throw); in FailSpec every service may throw.                *)
(***************************************************************************)
EXTENDS Integers, Sequences, FiniteSets, TLC

VARIABLES
    documents,        \* table Document: id -> row
    measurements,     \* table Measurement: set of rows, each owned by a document
    pendingDocument,  \* table PendingDocument: id -> row
    batchPending,     \* table BatchPending: set of rows (markers, pages, states)
    now,              \* the clock, in hours
    nextId,           \* the next fresh id of each kind (ids are never reused)
    pc,               \* per webhook invocation slot: where its handler stands
    loc,              \* per slot: the handler's local variables
    res,              \* per slot: what the running handler has done and reported
    nreq,             \* number of requests received so far
    overlap,          \* whether invocations may overlap in time
    hist,             \* history: who mutated what, across requests
    call,             \* a library function applied on its own: input, output
    mediaGroupPending \* table MediaGroupPending of the webhook's revision
                      \* with media groups: set of rows

vars == <<documents, measurements, pendingDocument, batchPending,
          now, nextId, pc, loc, res, nreq, overlap, hist, call,
          mediaGroupPending>>

(***************************************************************************)
(* Bounds of the model.                                                    *)
(***************************************************************************)
NumProcs == 2
MaxRequests == 3
MaxTime == 2
NumChats == 1

Procs == 1..NumProcs
Chats == 1..NumChats


(***************************************************************************)
(* Text helpers: String.prototype.toLowerCase, trim, split(/\s+/),         *)
(* includes.                                                               *)
(***************************************************************************)
CasePairs ==
    {
      <<"A", "a">>, <<"B", "b">>, <<"V", "v">>, <<"G", "g">>,
      <<"D", "d">>, <<"E", "e">>, <<"Yo", "yo">>, <<"Zh", "zh">>,
      <<"Z", "z">>, <<"I", "i">>, <<"J", "j">>, <<"K", "k">>,
      <<"L", "l">>, <<"M", "m">>, <<"N", "n">>, <<"O", "o">>,
      <<"P", "p">>, <<"R", "r">>, <<"S", "s">>, <<"T", "t">>,
      <<"U", "u">>, <<"F", "f">>, <<"H", "h">>, <<"C", "c">>,
      <<"Ch", "ch">>, <<"Sh", "sh">>, <<"Shch", "shch">>, <<"Hard", "hard">>,
      <<"Y", "y">>, <<"Soft", "soft">>, <<"Eh", "eh">>, <<"Yu", "yu">>,
      <<"Ya", "ya">>, <<"_A", "_a">>, <<"_B", "_b">>, <<"_C", "_c">>,
      <<"_D", "_d">>, <<"_E", "_e">>, <<"_F", "_f">>, <<"_G", "_g">>,
      <<"_H", "_h">>, <<"_I", "_i">>, <<"_J", "_j">>, <<"_K", "_k">>,
      <<"_L", "_l">>, <<"_M", "_m">>, <<"_N", "_n">>, <<"_O", "_o">>,
      <<"_P", "_p">>, <<"_Q", "_q">>, <<"_R", "_r">>, <<"_S", "_s">>,
      <<"_T", "_t">>, <<"_U", "_u">>, <<"_V", "_v">>, <<"_W", "_w">>,
      <<"_X", "_x">>, <<"_Y", "_y">>, <<"_Z", "_z">> }


ToLower(s) ==
    LET LowerChar(c) ==
            IF \E pr \in CasePairs : pr[1] = c
            THEN (CHOOSE pr \in CasePairs : pr[1] = c)[2]
            ELSE c
    IN  [i \in DOMAIN s |-> LowerChar(s[i])]

IsSpace(c) == c = " "

RECURSIVE TrimLeft(_)
TrimLeft(s) ==
    IF s # <<>> /\ IsSpace(Head(s)) THEN TrimLeft(Tail(s)) ELSE s

RECURSIVE TrimRight(_)
TrimRight(s) ==
    IF s # <<>> /\ IsSpace(s[Len(s)])
    THEN TrimRight(SubSeq(s, 1, Len(s) - 1))
    ELSE s

Trim(s) == TrimRight(TrimLeft(s))

\* s.split(/\s+/): the pieces between maximal runs of whitespace; a leading
\* or trailing run yields an empty first or last piece, "" yields [""].
RECURSIVE SplitFrom(_, _, _)
SplitFrom(s, cur, inGap) ==
    IF s = <<>> THEN <<cur>>
    ELSE IF IsSpace(Head(s))
         THEN IF inGap THEN SplitFrom(Tail(s), cur, TRUE)
              ELSE <<cur>> \o SplitFrom(Tail(s), <<>>, TRUE)
         ELSE SplitFrom(Tail(s), Append(cur, Head(s)), FALSE)

SplitWs(s) == SplitFrom(s, <<>>, FALSE)

Includes(s, sub) ==
    \E i \in 1..(Len(s) - Len(sub) + 1) : SubSeq(s, i, i + Len(sub) - 1) = sub

SeqFilterLong(ws) == SelectSeq(ws, LAMBDA w : Len(w) > 2)

SeqToSet(q) == {q[i] : i \in DOMAIN q}

(***************************************************************************)
(* Optional values.  A missing text (null / undefined) is the one-atom     *)
(* sequence Null, which is no text of characters; a missing keyValues map  *)
(* is NullKV.  A keyValues map is the sequence of its <<key, value>>       *)
(* entries in insertion order (Object.entries / Object.keys order).        *)
(***************************************************************************)
Null == <<"NULL">>
NullKV == << <<Null, Null>> >>

\* JavaScript falsiness of a string | null | undefined.
Falsy(s) == s = Null \/ s = <<>>

(***************************************************************************)
(* Dates.  A Date is [valid, ts]: ts in hours, valid = FALSE for JS        *)
(* "Invalid Date".  A date string is [k, ts]: k = "iso" for a string that  *)
(* new Date() parses, "garbage" for one it does not, "absent" for          *)
(* null / "".                                                              *)
(***************************************************************************)
InvalidDate == [valid |-> FALSE, ts |-> 0]
DateOf(t) == [valid |-> TRUE, ts |-> t]

\* new Date(str)
ParseDate(str) == IF str.k = "iso" THEN DateOf(str.ts) ELSE InvalidDate

\* Date.prototype.toISOString (throws on an Invalid Date: callers test .valid)
ToISOString(d) == [k |-> "iso", ts |-> d.ts]

\* Date.prototype.toDateString: the calendar day
ToDateString(d) == IF d.valid THEN d.ts \div 24 ELSE -1

\* date.setDate(date.getDate() + n)
AddDays(d, n) == IF d.valid THEN DateOf(d.ts + 24 * n) ELSE d

(***************************************************************************)
(* Duplicate detector (lib/duplicates).  A similarity is the fraction      *)
(* <<numerator, denominator>>.                                             *)
(***************************************************************************)
Frac(n, d) == <<n, d>>
FracGE(f, n, d) == f[1] * d >= n * f[2]
\* Math.round(f * 100)
Percent(f) == (200 * f[1] + f[2]) \div (2 * f[2])


calculateSimilarity(str1, str2) ==
    IF Falsy(str1) \/ Falsy(str2) THEN Frac(0, 1)
    ELSE LET s1 == Trim(ToLower(str1))
             s2 == Trim(ToLower(str2))
             words1 == SeqFilterLong(SplitWs(s1))
             words2 == SeqFilterLong(SplitWs(s2))
             CountIn(ws, others) ==
                 Len(SelectSeq(ws, LAMBDA w :
                         \E j \in DOMAIN others : others[j] = w))
         IN  IF s1 = s2 THEN Frac(1, 1)
             ELSE IF Len(s1) < 3 \/ Len(s2) < 3 THEN Frac(0, 1)
             ELSE IF Len(words1) = 0 \/ Len(words2) = 0 THEN Frac(0, 1)
             ELSE Frac(CountIn(words1, words2),
                       Cardinality(SeqToSet(words1) \cup SeqToSet(words2)))

KeysOf(kv) == [i \in DOMAIN kv |-> kv[i][1]]
\* kv[key]: the value of the (unique) entry with that key
ValueOf(kv, key) == kv[CHOOSE i \in DOMAIN kv : kv[i][1] = key][2]

compareKeyValues(kv1, kv2) ==
    IF kv1 = NullKV \/ kv2 = NullKV THEN Frac(0, 1)
    ELSE IF Len(kv1) = 0 \/ Len(kv2) = 0 THEN Frac(0, 1)
    ELSE LET keys2 == SeqToSet(KeysOf(kv2))
             commonKeys == SelectSeq(KeysOf(kv1), LAMBDA k : k \in keys2)
             matching == SelectSeq(commonKeys,
                 LAMBDA k : Trim(ToLower(ValueOf(kv1, k)))
                            = Trim(ToLower(ValueOf(kv2, k))))
         IN  IF Len(commonKeys) = 0 THEN Frac(0, 1)
             ELSE Frac(Len(matching), Len(commonKeys))

NotDuplicate == [isDuplicate |-> FALSE, reason |-> "", percent |-> 0,
                 confidence |-> Frac(0, 1)]

\* a check that tries the conclusion before the doctor and the day
checkDuplicateConclusionFirst(existingDoc, newAnalysis) ==
    LET sameDoctor == Trim(ToLower(existingDoc.doctor))
                      = Trim(ToLower(newAnalysis.doctor))
        sameDate == ToDateString(existingDoc.date)
                    = ToDateString(ParseDate(newAnalysis.date))
        similarity == calculateSimilarity(existingDoc.conclusion,
                                          newAnalysis.conclusion)
        kvMatch == compareKeyValues(existingDoc.keyValues, newAnalysis.keyValues)
        titleSimilarity == calculateSimilarity(existingDoc.title, newAnalysis.title)
    IN  IF FracGE(similarity, 7, 10)
        THEN [isDuplicate |-> TRUE, reason |-> "conclusion",
              percent |-> Percent(similarity), confidence |-> similarity]
        ELSE IF ~Falsy(newAnalysis.doctor) /\ ~Falsy(existingDoc.doctor)
                /\ sameDoctor /\ sameDate
        THEN [isDuplicate |-> TRUE, reason |-> "doctor", percent |-> 90,
              confidence |-> Frac(9, 10)]
        ELSE IF FracGE(kvMatch, 8, 10)
        THEN [isDuplicate |-> TRUE, reason |-> "keyValues",
              percent |-> Percent(kvMatch), confidence |-> kvMatch]
        ELSE IF FracGE(titleSimilarity, 5, 10)
        THEN [isDuplicate |-> TRUE, reason |-> "title",
              percent |-> Percent(titleSimilarity),
              confidence |-> titleSimilarity]
        ELSE NotDuplicate

checkDuplicate(existingDoc, newAnalysis) ==
    LET newDate == ParseDate(newAnalysis.date)
        sameDoctor == Trim(ToLower(existingDoc.doctor))
                      = Trim(ToLower(newAnalysis.doctor))
        sameDate == ToDateString(existingDoc.date) = ToDateString(newDate)
        similarity == calculateSimilarity(existingDoc.conclusion,
                                          newAnalysis.conclusion)
        kvMatch == compareKeyValues(existingDoc.keyValues, newAnalysis.keyValues)
        titleSimilarity ==
            calculateSimilarity(existingDoc.title,
                IF Falsy(newAnalysis.title) THEN <<>> ELSE newAnalysis.title)
    IN  IF ~Falsy(newAnalysis.doctor) /\ ~Falsy(existingDoc.doctor)
           /\ sameDoctor /\ sameDate
        THEN [isDuplicate |-> TRUE, reason |-> "doctor", percent |-> 90,
              confidence |-> Frac(9, 10)]
        ELSE IF ~Falsy(newAnalysis.conclusion) /\ ~Falsy(existingDoc.conclusion)
                /\ FracGE(similarity, 7, 10)
        THEN [isDuplicate |-> TRUE, reason |-> "conclusion",
              percent |-> Percent(similarity), confidence |-> similarity]
        ELSE IF FracGE(kvMatch, 8, 10)
        THEN [isDuplicate |-> TRUE, reason |-> "keyValues",
              percent |-> Percent(kvMatch), confidence |-> kvMatch]
        ELSE IF FracGE(titleSimilarity, 5, 10)
        THEN [isDuplicate |-> TRUE, reason |-> "title",
              percent |-> Percent(titleSimilarity),
              confidence |-> titleSimilarity]
        ELSE NotDuplicate

NoMatch == [found |-> FALSE, document |-> 0, reason |-> "",
            confidence |-> Frac(0, 1)]

\* documents: a sequence of DocumentData; the first one checkDuplicate accepts
\* a duplicate search that never reports a match
findNoDuplicate(docs, newAnalysis) == NoMatch

\* a duplicate search that reports the match of the highest confidence
findBestDuplicate(docs, newAnalysis) ==
    LET hits == {k \in DOMAIN docs : checkDuplicate(docs[k], newAnalysis).isDuplicate}
        conf(k) == checkDuplicate(docs[k], newAnalysis).confidence
    IN  IF hits = {} THEN NoMatch
        ELSE LET best == CHOOSE k \in hits :
                             \A j \in hits : FracGE(conf(k), conf(j)[1], conf(j)[2])
             IN  [found |-> TRUE, document |-> docs[best].id,
                  reason |-> checkDuplicate(docs[best], newAnalysis).reason,
                  confidence |-> conf(best)]

RECURSIVE findDuplicate(_, _)
findDuplicate(docs, newAnalysis) ==
    IF docs = <<>> THEN NoMatch
    ELSE LET result == checkDuplicate(Head(docs), newAnalysis)
         IN  IF result.isDuplicate
             THEN [found |-> TRUE, document |-> Head(docs).id,
                   reason |-> result.reason, confidence |-> result.confidence]
             ELSE findDuplicate(Tail(docs), newAnalysis)

(***************************************************************************)
(* Measurement extractor (lib/metrics.ts).  A number is [m, e]: the        *)
(* decimal m / 10^e with no trailing zero in its fraction; NaN is NaNum.   *)
(***************************************************************************)
METRICS_CONFIG ==
    << [name |-> <<"P", "S", "A", " ", "o", "b", "shch", "i", "j">>,
        aliases |-> << <<"P", "S", "A">>,
                       <<"_P", "_S", "_A">>,
                       <<"_P", "_S", "_A", " ", "_t", "_o", "_t", "_a", "_l">>,
                       <<"P", "S", "A", " ", "o", "b", "shch">>,
                       <<"P", "r", "o", "s", "t", "a", "t", "i", "ch", "e", "s", "k", "i", "j", " ", "s", "p", "e", "c", "i", "f", "i", "ch", "e", "s", "k", "i", "j", " ", "a", "n", "t", "i", "g", "e", "n">> >>,
        unit |-> <<"n", "g", "/", "m", "l">>],
       [name |-> <<"P", "S", "A", " ", "s", "v", "o", "b", "o", "d", "n", "y", "j">>,
        aliases |-> << <<"P", "S", "A", " ", "s", "v", "o", "b">>,
                       <<"_P", "_S", "_A", " ", "_f", "_r", "_e", "_e">>,
                       <<"_f", "_P", "_S", "_A">>,
                       <<"S", "v", "o", "b", "o", "d", "n", "y", "j", " ", "P", "S", "A">> >>,
        unit |-> <<"n", "g", "/", "m", "l">>],
       [name |-> <<"G", "e", "m", "o", "g", "l", "o", "b", "i", "n">>,
        aliases |-> << <<"_H", "_b">>,
                       <<"_H", "_G", "_B">>,
                       <<"_H", "_e", "_m", "_o", "_g", "_l", "_o", "_b", "_i", "_n">>,
                       <<"G", "e", "m", "o", "g", "l", "o", "b">> >>,
        unit |-> <<"g", "/", "l">>] >>

NoConfig == [name |-> Null, aliases |-> <<>>, unit |-> Null]

\* METRICS_CONFIG[name]: the entry of the catalog under that key; the catalog
\* is a plain object, so a key that names a method of Object.prototype reads
\* that function (a truthy value whose name is the key and that has no
\* unit), and 'constructor' reads the function named Object
PropertyOf(name) ==
  LET Inherited ==
    {<<"_t", "_o", "_S", "_t", "_r", "_i", "_n", "_g">>,
     <<"_v", "_a", "_l", "_u", "_e", "_O", "_f">>,
     <<"_h", "_a", "_s", "_O", "_w", "_n", "_P", "_r", "_o", "_p", "_e", "_r", "_t", "_y">>}
  IN
    IF \E i \in DOMAIN METRICS_CONFIG : METRICS_CONFIG[i].name = name
    THEN METRICS_CONFIG[CHOOSE i \in DOMAIN METRICS_CONFIG :
                            METRICS_CONFIG[i].name = name]
    ELSE IF name \in Inherited
    THEN [name |-> name, aliases |-> <<>>, unit |-> Null]
    ELSE IF name = <<"_c", "_o", "_n", "_s", "_t", "_r", "_u", "_c", "_t", "_o", "_r">>
    THEN [name |-> <<"_O", "_b", "_j", "_e", "_c", "_t">>, aliases |-> <<>>,
          unit |-> Null]
    ELSE NoConfig

\* an exact key first; then the first config, in catalog order, whose key or
\* one of whose aliases is the trimmed name when lower-cased
getMetricConfig(name) ==
    IF PropertyOf(name) # NoConfig THEN PropertyOf(name)
    ELSE LET nameLower == Trim(ToLower(name))
             MatchesConfig(config) ==
                 \/ ToLower(config.name) = nameLower
                 \/ \E j \in DOMAIN config.aliases :
                        ToLower(config.aliases[j]) = nameLower
             hits == {i \in DOMAIN METRICS_CONFIG :
                          MatchesConfig(METRICS_CONFIG[i])}
         IN  IF hits = {} THEN NoConfig
             ELSE METRICS_CONFIG[CHOOSE i \in hits : \A j \in hits : i <= j]

getCanonicalMetricName(name) == getMetricConfig(name).name

Digits == <<"0", "1", "2", "3", "4", "5", "6", "7", "8", "9">>
IsDigit(c) == \E i \in DOMAIN Digits : Digits[i] = c

NaNum == [nan |-> TRUE, m |-> 0, e |-> 0]
RECURSIVE Normalize(_, _)
Normalize(m, e) ==
    IF e > 0 /\ m % 10 = 0 THEN Normalize(m \div 10, e - 1)
    ELSE [nan |-> FALSE, m |-> m, e |-> e]


\* the longest prefix of s made of digits
RECURSIVE TakeDigits(_)
TakeDigits(s) ==
    IF s # <<>> /\ IsDigit(Head(s)) THEN <<Head(s)>> \o TakeDigits(Tail(s))
    ELSE <<>>

\* the longest prefix of s matching [\d.,]*
RECURSIVE TakeNumChars(_)
TakeNumChars(s) ==
    IF s # <<>> /\ (IsDigit(Head(s)) \/ Head(s) \in {".", ","})
    THEN <<Head(s)>> \o TakeNumChars(Tail(s))
    ELSE <<>>

RECURSIVE DigitsValue(_, _)
DigitsValue(ds, acc) ==
    LET DigitVal(c) == (CHOOSE i \in DOMAIN Digits : Digits[i] = c) - 1
    IN  IF ds = <<>> THEN acc
        ELSE DigitsValue(Tail(ds), 10 * acc + DigitVal(Head(ds)))

\* parseFloat on a string of digits, "." and ",": the integer digits, then a
\* "." and the fraction digits; NaN when neither part has a digit
parseFloat(s) ==
    LET int == TakeDigits(s)
        rest == SubSeq(s, Len(int) + 1, Len(s))
        frac == IF rest # <<>> /\ Head(rest) = "."
                THEN TakeDigits(Tail(rest)) ELSE <<>>
    IN  IF int = <<>> /\ frac = <<>> THEN NaNum
        ELSE Normalize(DigitsValue(int \o frac, 0), Len(frac))

\* String.prototype.replace(',', '.'): the first comma only
RECURSIVE ReplaceFirstComma(_)
ReplaceFirstComma(s) ==
    IF s = <<>> THEN s
    ELSE IF Head(s) = "," THEN <<".">> \o Tail(s)
    ELSE <<Head(s)>> \o ReplaceFirstComma(Tail(s))

NoParse == [ok |-> FALSE, value |-> NaNum, unit |-> <<>>]

\* str.match(/^([\d.,]+)\s*(.*)$/)
parseValueWithUnit(str) ==
    IF Falsy(str) THEN NoParse
    ELSE LET num == TakeNumChars(str)
             rest == SubSeq(str, Len(num) + 1, Len(str))
             value == parseFloat(ReplaceFirstComma(num))
         IN  IF num = <<>> \/ value.nan THEN NoParse
             ELSE [ok |-> TRUE, value |-> value, unit |-> Trim(rest)]

\* one iteration of the loop of extractMeasurements: the measurement of an
\* entry, or nothing
MeasurementOf(entry) ==
    LET canonicalName == getCanonicalMetricName(entry[1])
        config == PropertyOf(canonicalName)
        parsed == parseValueWithUnit(entry[2])
    IN  IF canonicalName = Null \/ config = NoConfig \/ ~parsed.ok THEN <<>>
        ELSE << [name |-> canonicalName, value |-> parsed.value,
                 unit |-> IF parsed.unit = <<>> THEN config.unit
                          ELSE parsed.unit] >>

RECURSIVE extractMeasurements(_)
extractMeasurements(keyValues) ==
    IF keyValues = NullKV \/ keyValues = <<>> THEN <<>>
    ELSE MeasurementOf(Head(keyValues)) \o extractMeasurements(Tail(keyValues))

(***************************************************************************)
(* Taxonomy (lib/types).                                                   *)
(***************************************************************************)
CatConclusions == <<"z", "a", "k", "l", "yu", "ch", "e", "n", "i", "ya">>
CatAnalyses == <<"a", "n", "a", "l", "i", "z", "y">>
CatStudies == <<"i", "s", "s", "l", "e", "d", "o", "v", "a", "n", "i", "ya">>
Other == <<"d", "r", "u", "g", "o", "e">>

DOCUMENT_CATEGORIES == <<CatConclusions, CatAnalyses, CatStudies, Other>>

\* category -> its subtypes, in declaration order
CATEGORY_SUBTYPES ==
    << [category |-> CatConclusions,
        subtypes |-> << <<"k", "o", "n", "s", "u", "l", "soft", "t", "a", "c", "i", "ya">>,
                        <<"v", "y", "p", "i", "s", "k", "a">>,
                        <<"n", "a", "p", "r", "a", "v", "l", "e", "n", "i", "e">> >>],
       [category |-> CatAnalyses,
        subtypes |-> << <<"k", "r", "o", "v", "soft">>,
                        <<"b", "i", "o", "h", "i", "m", "i", "ya">>,
                        <<"o", "n", "k", "o", "m", "a", "r", "k", "e", "r", "y">>,
                        <<"m", "o", "ch", "a">>,
                        <<"k", "a", "l">>,
                        <<"g", "i", "s", "t", "o", "l", "o", "g", "i", "ya">> >>],
       [category |-> CatStudies,
        subtypes |-> << <<"u", "z", "i">>,
                        <<"k", "t">>,
                        <<"m", "r", "t">>,
                        <<"p", "eh", "t", "-", "k", "t">>,
                        <<"r", "e", "n", "t", "g", "e", "n">>,
                        <<"eh", "k", "g">>,
                        <<"eh", "n", "d", "o", "s", "k", "o", "p", "i", "ya">>,
                        <<"k", "o", "l", "o", "n", "o", "s", "k", "o", "p", "i", "ya">> >>],
       [category |-> Other,
        subtypes |-> << <<"d", "r", "u", "g", "o", "e">> >>] >>

\* the flat list of the subtypes, each with its category
RECURSIVE FlattenSubtypes(_)
FlattenSubtypes(rows) ==
    IF rows = <<>> THEN <<>>
    ELSE [i \in DOMAIN Head(rows).subtypes |->
             [value |-> Head(rows).subtypes[i], category |-> Head(rows).category]]
         \o FlattenSubtypes(Tail(rows))

ALL_SUBTYPES == FlattenSubtypes(CATEGORY_SUBTYPES)

\* a category search that takes every unknown string for a conclusion
CategoryGuessed(cat) ==
    IF \E i \in DOMAIN DOCUMENT_CATEGORIES : DOCUMENT_CATEGORIES[i] = cat THEN cat
    ELSE CatConclusions

\* the category found from rawCategory alone: exact value, then keywords
CategoryOf(cat) ==
    IF \E i \in DOMAIN DOCUMENT_CATEGORIES : DOCUMENT_CATEGORIES[i] = cat THEN cat
    ELSE IF Includes(cat, <<"z", "a", "k", "l", "yu", "ch", "e", "n">>)
            \/ Includes(cat, <<"k", "o", "n", "s", "u", "l", "soft", "t", "a", "c">>)
            \/ Includes(cat, <<"v", "y", "p", "i", "s">>)
         THEN CatConclusions
    ELSE IF Includes(cat, <<"a", "n", "a", "l", "i", "z">>)
            \/ Includes(cat, <<"k", "r", "o", "v", "soft">>)
            \/ Includes(cat, <<"m", "o", "ch">>)
         THEN CatAnalyses
    ELSE IF Includes(cat, <<"i", "s", "s", "l", "e", "d", "o", "v", "a", "n">>)
            \/ Includes(cat, <<"u", "z", "i">>)
            \/ Includes(cat, <<"k", "t">>)
            \/ Includes(cat, <<"m", "r", "t">>)
         THEN CatStudies
    ELSE Other

\* the keyword rules on rawSubtype, in order: the first that matches, or
\* subtype Other with the category left as found from rawCategory
SubtypeByKeyword(sub, category) ==
    IF Includes(sub, <<"k", "o", "n", "s", "u", "l", "soft", "t", "a", "c">>)
            \/ Includes(sub, <<"o", "s", "m", "o", "t", "r">>)
            \/ Includes(sub, <<"p", "r", "i", "yo", "m">>)
            \/ Includes(sub, <<"p", "r", "i", "e", "m">>)
         THEN [category |-> CatConclusions,
               subtype |-> <<"k", "o", "n", "s", "u", "l", "soft", "t", "a", "c", "i", "ya">>]
    ELSE IF Includes(sub, <<"v", "y", "p", "i", "s">>)
            \/ Includes(sub, <<"eh", "p", "i", "k", "r", "i", "z">>)
         THEN [category |-> CatConclusions,
               subtype |-> <<"v", "y", "p", "i", "s", "k", "a">>]
    ELSE IF Includes(sub, <<"p", "s", "a">>)
            \/ Includes(sub, <<"o", "n", "k", "o", "m", "a", "r", "k", "e", "r">>)
         THEN [category |-> CatAnalyses,
               subtype |-> <<"o", "n", "k", "o", "m", "a", "r", "k", "e", "r", "y">>]
    ELSE IF Includes(sub, <<"b", "i", "o", "h", "i", "m">>)
         THEN [category |-> CatAnalyses,
               subtype |-> <<"b", "i", "o", "h", "i", "m", "i", "ya">>]
    ELSE IF Includes(sub, <<"k", "r", "o", "v", "soft">>)
            \/ Includes(sub, <<"o", "a", "k">>)
            \/ Includes(sub, <<"g", "e", "m", "o", "g", "l", "o", "b", "i", "n">>)
         THEN [category |-> CatAnalyses,
               subtype |-> <<"k", "r", "o", "v", "soft">>]
    ELSE IF Includes(sub, <<"m", "o", "ch">>)
         THEN [category |-> CatAnalyses,
               subtype |-> <<"m", "o", "ch", "a">>]
    ELSE IF Includes(sub, <<"g", "i", "s", "t", "o", "l", "o", "g">>)
            \/ Includes(sub, <<"b", "i", "o", "p", "s", "i">>)
         THEN [category |-> CatAnalyses,
               subtype |-> <<"g", "i", "s", "t", "o", "l", "o", "g", "i", "ya">>]
    ELSE IF Includes(sub, <<"u", "z", "i">>)
            \/ Includes(sub, <<"u", "l", "soft", "t", "r", "a", "z", "v", "u", "k">>)
         THEN [category |-> CatStudies,
               subtype |-> <<"u", "z", "i">>]
    ELSE IF Includes(sub, <<"p", "eh", "t">>)
            \/ Includes(sub, <<"p", "e", "t", "-", "k", "t">>)
            \/ Includes(sub, <<"_p", "_e", "_t">>)
         THEN [category |-> CatStudies,
               subtype |-> <<"p", "eh", "t", "-", "k", "t">>]
    ELSE IF Includes(sub, <<"k", "t">>)
            \/ Includes(sub, <<"k", "o", "m", "p", "soft", "yu", "t", "e", "r", "n">>)
         THEN [category |-> CatStudies,
               subtype |-> <<"k", "t">>]
    ELSE IF Includes(sub, <<"m", "r", "t">>)
            \/ Includes(sub, <<"m", "a", "g", "n", "i", "t", "n">>)
         THEN [category |-> CatStudies,
               subtype |-> <<"m", "r", "t">>]
    ELSE IF Includes(sub, <<"r", "e", "n", "t", "g", "e", "n">>)
         THEN [category |-> CatStudies,
               subtype |-> <<"r", "e", "n", "t", "g", "e", "n">>]
    ELSE IF Includes(sub, <<"eh", "k", "g">>)
         THEN [category |-> CatStudies,
               subtype |-> <<"eh", "k", "g">>]
    ELSE IF Includes(sub, <<"eh", "n", "d", "o", "s", "k", "o", "p">>)
         THEN [category |-> CatStudies,
               subtype |-> <<"eh", "n", "d", "o", "s", "k", "o", "p", "i", "ya">>]
    ELSE IF Includes(sub, <<"k", "o", "l", "o", "n", "o", "s", "k", "o", "p">>)
         THEN [category |-> CatStudies,
               subtype |-> <<"k", "o", "l", "o", "n", "o", "s", "k", "o", "p", "i", "ya">>]
    ELSE [category |-> category, subtype |-> Other]

\* rawCategory?.toLowerCase().trim() || ''
LowerTrimOrEmpty(raw) == IF Falsy(raw) THEN <<>> ELSE Trim(ToLower(raw))

\* a normalization in which a recognized category wins over the subtype
normalizeCategoryFirst(rawCategory, rawSubtype) ==
    LET cat == LowerTrimOrEmpty(rawCategory)
        sub == LowerTrimOrEmpty(rawSubtype)
        category == CategoryOf(cat)
        found == {i \in DOMAIN ALL_SUBTYPES : ALL_SUBTYPES[i].value = sub}
    IN  IF found # {}
        THEN LET f == ALL_SUBTYPES[CHOOSE i \in found : \A j \in found : i <= j]
             IN  [category |-> IF category # Other THEN category ELSE f.category,
                  subtype |-> f.value]
        ELSE SubtypeByKeyword(sub, category)

normalizeDocumentType(rawCategory, rawSubtype) ==
    LET cat == LowerTrimOrEmpty(rawCategory)
        sub == LowerTrimOrEmpty(rawSubtype)
        category == CategoryOf(cat)
        found == {i \in DOMAIN ALL_SUBTYPES : ALL_SUBTYPES[i].value = sub}
    IN  IF found # {}
        THEN LET f == ALL_SUBTYPES[CHOOSE i \in found : \A j \in found : i <= j]
             IN  [category |-> f.category, subtype |-> f.value]
        ELSE SubtypeByKeyword(sub, category)

(***************************************************************************)
(* Inputs: what the analyzer returns for the files users send.             *)
(***************************************************************************)
DateString(day) == [k |-> "iso", ts |-> 24 * day]
NoDateString == [k |-> "absent", ts |-> 0]
GarbageDateString == [k |-> "garbage", ts |-> 0]

\* a report whose date the analyzer returned in a form new Date() rejects
AnalysisBadDate ==
    [category |-> Null,
     subtype |-> Null,
     title |-> <<"U", "Z", "I", " ", "p", "o", "ch", "e", "k">>,
     date |-> GarbageDateString,
     doctor |-> Null,
     conclusion |-> Null,
     keyValues |-> NullKV]

\* the analyses the analyzer may return for a file
Analyses ==
    LET
        \* a visit to doctor Ivanov on day 0, with a hemoglobin value and no title
        AnalysisVisit ==
            [category |-> <<"z", "a", "k", "l", "yu", "ch", "e", "n", "i", "ya">>,
             subtype |-> <<"K", "o", "n", "s", "u", "l", "soft", "t", "a", "c", "i", "ya", " ", "u", "r", "o", "l", "o", "g", "a">>,
             title |-> Null,
             date |-> DateString(0),
             doctor |-> <<"I", "v", "a", "n", "o", "v", " ", "I", ".", "I", ".">>,
             conclusion |-> Null,
             keyValues |-> << << <<"G", "e", "m", "o", "g", "l", "o", "b", "i", "n">>, <<"9", ".", "2", " ", "g", "/", "l">> >> >>]

        \* an undated ultrasound report without a doctor
        AnalysisScan ==
            [category |-> <<"I", "s", "s", "l", "e", "d", "o", "v", "a", "n", "i", "e">>,
             subtype |-> <<"U", "Z", "I", " ", "p", "o", "ch", "e", "k">>,
             title |-> <<"U", "Z", "I", " ", "p", "o", "ch", "e", "k">>,
             date |-> NoDateString,
             doctor |-> Null,
             conclusion |-> Null,
             keyValues |-> NullKV]
        \* a second sheet of the same visit: the doctor and the day, no values
        AnalysisRevisit ==
            [AnalysisVisit EXCEPT !.title = <<"Eh", "p", "i", "k", "r", "i", "z">>,
                                  !.keyValues = NullKV]
    IN  {AnalysisVisit, AnalysisScan, AnalysisBadDate, AnalysisRevisit}
NoAnalysis == AnalysisBadDate

(***************************************************************************)
(* The record store.                                                       *)
(***************************************************************************)
TakeCap == 20
WindowDays == 7
ExpiryHours == 1

\* a Document row already in the store: an earlier visit to the same doctor
\* on day 0
VisitDoc(id) ==
    [id |-> id, date |-> DateOf(10),
     category |-> CatConclusions,
     subtype |-> <<"k", "o", "n", "s", "u", "l", "soft", "t", "a", "c", "i", "ya">>,
     title |-> <<"P", "r", "i", "e", "m", " ", "u", "r", "o", "l", "o", "g", "a">>,
     doctor |-> <<"I", "V", "A", "N", "O", "V", " ", "I", ".", "I", ".", " ">>,
     conclusion |-> Null, keyValues |-> NullKV, content |-> 0, fileUrl |-> 0]

EmptyStore == [i \in {} |-> VisitDoc(i)]
OneDocStore == [i \in {1} |-> VisitDoc(i)]
\* the store with more documents in the window than the pool takes: the
\* visit and rows of day 1 that resemble nothing
FullStore ==
    LET FillerDoc(id) ==
            [id |-> id, date |-> DateOf(24 + 9),
             category |-> Other, subtype |-> Other,
             title |-> <<"S", "p", "r", "a", "v", "k", "a">>,
             doctor |-> Null,
             conclusion |-> Null, keyValues |-> NullKV, content |-> 0,
             fileUrl |-> 0]
    IN  [i \in 1..(TakeCap + 1) |-> IF i = 1 THEN VisitDoc(i) ELSE FillerDoc(i)]

NoPending ==
    [id |-> 0, chatId |-> 0, duplicateId |-> 0, expiresAt |-> 0, messageId |-> 0,
     documentData |-> [date |-> NoDateString, category |-> Other,
                       subtype |-> Other, title |-> Null, doctor |-> Null,
                       conclusion |-> Null, keyValues |-> NullKV,
                       content |-> 0, fileUrl |-> 0]]

DocIds == DOMAIN documents
PendingIds == DOMAIN pendingDocument

\* function f without the key k
Without(f, k) == [x \in (DOMAIN f) \ {k} |-> f[x]]
\* function f with the key k bound to v
With(f, k, v) == [x \in (DOMAIN f) \cup {k} |-> IF x = k THEN v ELSE f[x]]


\* orderBy date desc; rows of equal date come in an order the database
\* chooses: by id, ascending or descending

RECURSIVE OrderByDateDesc(_, _)
OrderByDateDesc(ids, tieAsc) ==
    IF ids = {} THEN <<>>
    ELSE LET ComesBefore(i, j) ==
                 \/ documents[i].date.ts > documents[j].date.ts
                 \/ /\ documents[i].date.ts = documents[j].date.ts
                    /\ IF tieAsc THEN i <= j ELSE i >= j
             first == CHOOSE i \in ids : \A j \in ids : ComesBefore(i, j)
         IN  <<documents[first]>> \o OrderByDateDesc(ids \ {first}, tieAsc)

\* prisma.document.findMany({where: {date: {gte, lte}}, orderBy, take})
FindSimilar(startDate, endDate, tieAsc) ==
    LET Take(q, n) == SubSeq(q, 1, IF n <= Len(q) THEN n ELSE Len(q))
    IN  Take(OrderByDateDesc({i \in DocIds :
                                 /\ documents[i].date.ts >= startDate.ts
                                 /\ documents[i].date.ts <= endDate.ts},
                             tieAsc),
             TakeCap)

\* the rows of the nested write measurements: {create: [...]}
MeasurementRows(docId, ms, date) ==
    {[documentId |-> docId, n |-> i, name |-> ms[i].name, value |-> ms[i].value,
      unit |-> ms[i].unit, date |-> date] : i \in DOMAIN ms}

MeasurementsOfDoc(docId) == {m \in measurements : m.documentId = docId}

(***************************************************************************)
(* Webhook invocations.  Each slot of Procs runs one handler at a time;    *)
(* a handler advances one record-store operation per step (every await on  *)
(* the store is a point where another invocation may run).  Outbound       *)
(* messages are recorded in res[p].out.                                    *)
(***************************************************************************)
LocIdle ==
    [kind |-> "", req |-> 0, chat |-> 0, user |-> 0, action |-> "",
     pendingId |-> 0,
     pending |-> NoPending, analysis |-> NoAnalysis, fileUrl |-> 0,
     pageCount |-> 0, docDate |-> InvalidDate,
     documentData |-> NoPending.documentData, duplicate |-> NoMatch,
     pages |-> <<>>]

ResIdle ==
    [out |-> {}, count |-> 0,
     docsCreated |-> {}, docsUpdated |-> {},
     pendCreated |-> {}, pendDeleted |-> {},
     batchCreated |-> {}, batchDeleted |-> {},
     \* observations made when the handler read the store
     first |-> FALSE, expired |-> FALSE, docMissing |-> FALSE,
     goneBefore |-> FALSE, checked |-> FALSE, sameDoctorDay |-> FALSE,
     inPool |-> FALSE, pagesSeen |-> 0, markerSeen |-> FALSE,
     docsBefore |-> {},
     \* the service that threw, if one did
     failed |-> ""]

NoHistory ==
    [attempted |-> {}, mutated |-> {}, forwarded |-> {}, submitted |-> {},
     \* media groups: the photos received, the requests that became leader,
     \* and the outcome of each processing of a group
     photos |-> {}, leaders |-> {}, albums |-> {}]

\* no library function is being applied on its own
NoCall == [fn |-> "", in |-> <<>>, out |-> <<>>, returned |-> FALSE]

\* a request may start in slot p: the lowest free slot (slots are
\* interchangeable), and when invocations do not overlap, only with no other
\* handler running
MayStart(p) ==
    /\ pc[p] = "idle"
    /\ \A q \in Procs : q < p => pc[q] # "idle"
    /\ nreq < MaxRequests
    /\ overlap \/ \A q \in Procs : pc[q] = "idle"

\* the request of a slot; a conversation is the private chat of the user
\* with the same id, who sends its messages
Begin(p, kind, chat) ==
    [LocIdle EXCEPT !.kind = kind, !.req = nreq + 1, !.chat = chat,
                    !.user = chat]

(***************************************************************************)
(* Access: the allow-list of the environment (lib/telegram).               *)
(***************************************************************************)
\* process.env.TELEGRAM_ALLOWED_USERS
TELEGRAM_ALLOWED_USERS == <<" ", "1", " ", ",", "2", " ">>

\* a user of the messenger whose id is not on the list
Stranger == 7

\* allowedUsers.split(',').map(id => parseInt(id.trim(), 10)).includes(userId);
\* parseInt reads the leading digits of a part and gives NaN without one
isUserAllowed(userId) ==
    LET s == TELEGRAM_ALLOWED_USERS
        IsPart(i, j) ==
            /\ \A k \in i..j : s[k] # ","
            /\ i = 1 \/ s[i - 1] = ","
            /\ j = Len(s) \/ s[j + 1] = ","
        parts == {SubSeq(s, i, j) : <<i, j>> \in
                     {ij \in (1..Len(s)) \X (1..Len(s)) :
                         ij[1] <= ij[2] /\ IsPart(ij[1], ij[2])}}
        parseInt(t) == IF TakeDigits(t) = <<>> THEN -1
                       ELSE DigitsValue(TakeDigits(t), 0)
    IN  IF Falsy(s) THEN TRUE
        ELSE \E part \in parts : parseInt(Trim(part)) = userId

\* POST: a message of a user who is not allowed is answered with the refusal
\* and handled no further
RefuseMessage(p) ==
    /\ MayStart(p)
    /\ \E user \in Chats \cup {Stranger} :
        /\ ~isUserAllowed(user)
        /\ loc' = [loc EXCEPT ![p] = [Begin(p, "message", user) EXCEPT
                       !.user = user]]
        /\ res' = [res EXCEPT ![p] = [ResIdle EXCEPT !.out = {"refused"}]]
    /\ pc' = [pc EXCEPT ![p] = "done"]
    /\ nreq' = nreq + 1
    /\ UNCHANGED <<documents, measurements, pendingDocument, batchPending,
                   now, nextId, overlap, call, mediaGroupPending, hist>>

Report(p, tag) == [res EXCEPT ![p].out = @ \cup {tag}]

\* the handler's catch block: the error is reported to the conversation
Throw(p) ==
    /\ res' = Report(p, "error")
    /\ pc' = [pc EXCEPT ![p] = "done"]

\* POST returns {ok: true}
Return(p) ==
    /\ pc[p] = "done"
    /\ pc' = [pc EXCEPT ![p] = "idle"]
    /\ loc' = [loc EXCEPT ![p] = LocIdle]
    /\ res' = [res EXCEPT ![p] = ResIdle]
    /\ UNCHANGED <<documents, measurements, pendingDocument, batchPending,
                   now, nextId, nreq, overlap, call, mediaGroupPending, hist>>

(***************************************************************************)
(* checkDuplicatesAndSave                                                  *)
(***************************************************************************)
\* a document of the store has the doctor and the calendar day of analysis
SameDoctorDay(doc, an, docDate) ==
    /\ ~Falsy(an.doctor) /\ ~Falsy(doc.doctor)
    /\ Trim(ToLower(doc.doctor)) = Trim(ToLower(an.doctor))
    /\ ToDateString(doc.date) = ToDateString(docDate)

\* 'Документ из Telegram' in transliteration

DocumentDataOf(an, docDate, fileUrl, pageCount) ==
    LET type == normalizeDocumentType(an.category, an.subtype)
        DefaultTitle ==
            <<"D", "o", "k", "u", "m", "e", "n", "t", " ", "i", "z", " ", "_T", "_e", "_l", "_e", "_g", "_r", "_a", "_m">>
    IN  [date |-> ToISOString(docDate),
         category |-> type.category,
         subtype |-> type.subtype,
         title |-> IF Falsy(an.title) THEN DefaultTitle ELSE an.title,
         doctor |-> an.doctor,
         conclusion |-> an.conclusion,
         keyValues |-> an.keyValues,
         content |-> IF pageCount > 1 THEN pageCount ELSE 0,
         fileUrl |-> fileUrl]

\* an intake that saves the document whatever the duplicate check reports
AfterCheckSaves(duplicateResult) == "in_doc_create"

\* if (duplicate) the decision is left to the user, else the document is saved
AfterCheck(duplicateResult) ==
    IF duplicateResult.found THEN "in_pend_create" ELSE "in_doc_create"

\* normalize, date, findMany of the candidate pool, findDuplicate
IntakeFind(p) ==
    /\ pc[p] = "in_find"
    /\ LET an == loc[p].analysis
           docDate == IF an.date.k # "absent" THEN ParseDate(an.date)
                      ELSE DateOf(now)
       IN  IF ~docDate.valid
           THEN \* the Invalid Date is refused by the query
                /\ Throw(p)
                /\ UNCHANGED loc
           ELSE \E tieAsc \in BOOLEAN :
                LET similar == FindSimilar(AddDays(docDate, -WindowDays),
                                           AddDays(docDate, WindowDays), tieAsc)
                    duplicateResult ==
                        findDuplicate(similar,
                            [date |-> ToISOString(docDate), title |-> an.title,
                             doctor |-> an.doctor, conclusion |-> an.conclusion,
                             keyValues |-> an.keyValues])
                IN  /\ loc' = [loc EXCEPT ![p] = [@ EXCEPT
                               !.docDate = docDate,
                               !.duplicate = duplicateResult,
                               !.documentData = DocumentDataOf(an, docDate,
                                   loc[p].fileUrl, loc[p].pageCount)]]
                    /\ res' = [res EXCEPT ![p] = [@ EXCEPT
                               !.checked = TRUE,
                               !.sameDoctorDay = \E i \in DocIds :
                                   SameDoctorDay(documents[i], an, docDate),
                               !.inPool = \E k \in DOMAIN similar :
                                   SameDoctorDay(similar[k], an, docDate)]]
                    /\ pc' = [pc EXCEPT ![p] = AfterCheck(duplicateResult)]
    /\ UNCHANGED <<documents, measurements, pendingDocument, batchPending,
                   now, nextId, nreq, overlap, call, mediaGroupPending, hist>>

\* pendingDocument.create, then the prompt with its three buttons is sent
IntakePendCreate(p) ==
    /\ pc[p] = "in_pend_create"
    /\ LET id == nextId.pending
       IN  /\ pendingDocument' = With(pendingDocument, id,
                  [id |-> id, chatId |-> loc[p].chat,
                   documentData |-> loc[p].documentData,
                   duplicateId |-> loc[p].duplicate.document,
                   expiresAt |-> now + ExpiryHours,
                   messageId |-> 0])
           /\ nextId' = [nextId EXCEPT !.pending = @ + 1]
           /\ res' = [res EXCEPT ![p] = [@ EXCEPT !.pendCreated = @ \cup {id},
                                                  !.out = @ \cup {"prompt"}]]
           /\ loc' = [loc EXCEPT ![p].pendingId = id]
    /\ pc' = [pc EXCEPT ![p] = "in_pend_update"]
    /\ UNCHANGED <<documents, measurements, batchPending, now, nreq, overlap, call, mediaGroupPending, hist>>

\* pendingDocument.update({where: {id}, data: {messageId}})
IntakePendUpdate(p) ==
    /\ pc[p] = "in_pend_update"
    /\ IF loc[p].pendingId \in PendingIds
       THEN /\ pendingDocument' =
                  [pendingDocument EXCEPT ![loc[p].pendingId].messageId = 1]
            /\ pc' = [pc EXCEPT ![p] = "done"]
            /\ UNCHANGED res
       ELSE /\ Throw(p)
            /\ UNCHANGED pendingDocument
    /\ UNCHANGED <<documents, measurements, batchPending, now, nextId, loc,
                   nreq, overlap, call, mediaGroupPending, hist>>

\* a document.create that commits the Document row and loses the nested
\* measurements
CreateDocumentAlone(id, data, date) ==
    /\ documents' = With(documents, id,
           [id |-> id, date |-> date, category |-> data.category,
            subtype |-> data.subtype, title |-> data.title,
            doctor |-> data.doctor, conclusion |-> data.conclusion,
            keyValues |-> data.keyValues, content |-> data.content,
            fileUrl |-> data.fileUrl])
    /\ measurements' = measurements
    /\ nextId' = [nextId EXCEPT !.document = @ + 1]

\* document.create with the nested measurements, then the success message
CreateDocument(id, data, date) ==
    /\ documents' = With(documents, id,
           [id |-> id, date |-> date, category |-> data.category,
            subtype |-> data.subtype, title |-> data.title,
            doctor |-> data.doctor, conclusion |-> data.conclusion,
            keyValues |-> data.keyValues, content |-> data.content,
            fileUrl |-> data.fileUrl])
    /\ measurements' = measurements \cup
           MeasurementRows(id, extractMeasurements(data.keyValues), date)
    /\ nextId' = [nextId EXCEPT !.document = @ + 1]

IntakeDocCreate(p) ==
    /\ pc[p] = "in_doc_create"
    /\ CreateDocument(nextId.document, loc[p].documentData, loc[p].docDate)
    /\ res' = [res EXCEPT ![p] = [@ EXCEPT
                   !.docsCreated = @ \cup {nextId.document},
                   !.out = @ \cup {"saved"}]]
    /\ pc' = [pc EXCEPT ![p] = "done"]
    /\ UNCHANGED <<pendingDocument, batchPending, now, loc, nreq, overlap, call, mediaGroupPending, hist>>

(***************************************************************************)
(* A file sent to the bot: POST, processDocument.                          *)
(***************************************************************************)
\* a batchPending row; receivedAt defaults to the time of insertion, which
\* orders the rows as their ids do
BatchRow(id, chat, scheme, ref, fileType) ==
    [id |-> id, chatId |-> chat, fileUrl |-> [scheme |-> scheme, ref |-> ref],
     fileType |-> fileType, receivedAt |-> id]

BATCH_MARKER == "__batch_marker__"
STATE_PREFIX == "__state__:"
BlobUrl == "https:"

\* where: {chatId}
RowsOf(chat) == {r \in batchPending : r.chatId = chat}
\* where: {chatId, fileUrl: {not: '__batch_marker__'}}
NotMarkerRows(chat) == {r \in RowsOf(chat) : r.fileUrl.scheme # BATCH_MARKER}
\* where: {chatId, fileUrl: '__batch_marker__'}
MarkerRows(chat) == {r \in RowsOf(chat) : r.fileUrl.scheme = BATCH_MARKER}
\* where: {chatId, fileUrl: {startsWith: STATE_PREFIX}}
StateRows(chat) == {r \in RowsOf(chat) : r.fileUrl.scheme = STATE_PREFIX}
\* the rows addToBatch created: the pages of the session
PageRows(chat) == {r \in RowsOf(chat) : r.fileUrl.scheme = BlobUrl}

\* orderBy: {receivedAt: 'asc'}
RECURSIVE OrderByReceivedAt(_)
OrderByReceivedAt(rows) ==
    IF rows = {} THEN <<>>
    ELSE LET first == CHOOSE r \in rows : \A q \in rows : r.receivedAt <= q.receivedAt
         IN  <<first>> \o OrderByReceivedAt(rows \ {first})

\* getUserState; a file sent while a vital sign is awaited is read as its
\* (empty) text and refused; otherwise download, upload to the blob store,
\* analysis
ReceiveDocument(p) ==
    /\ MayStart(p)
    /\ \E chat \in Chats, an \in Analyses :
        IF StateRows(chat) # {}
        THEN /\ loc' = [loc EXCEPT ![p] = Begin(p, "document", chat)]
             /\ res' = [res EXCEPT ![p] = [ResIdle EXCEPT !.out = {"unrecognized"}]]
             /\ pc' = [pc EXCEPT ![p] = "done"]
             /\ UNCHANGED nextId
        ELSE /\ loc' = [loc EXCEPT ![p] = [Begin(p, "document", chat) EXCEPT
                            !.analysis = an, !.fileUrl = nextId.blob,
                            !.pageCount = 1]]
             /\ nextId' = [nextId EXCEPT !.blob = @ + 1]
             /\ res' = [res EXCEPT ![p] = [ResIdle EXCEPT
                            !.markerSeen = MarkerRows(chat) # {}]]
             /\ pc' = [pc EXCEPT ![p] = "in_find"]
    /\ nreq' = nreq + 1
    /\ UNCHANGED <<documents, measurements, pendingDocument, batchPending,
                   now, overlap, call, mediaGroupPending, hist>>

(***************************************************************************)
(* handleCallbackQuery: a press on add / replace / cancel of a prompt.     *)
(***************************************************************************)

\* a resolution that forgets to delete the decision row (the properties of
\* exactly-once resolution must tell it from DeletePending)
DeletePendingForgotten(p, tag, next) ==
    /\ pendingDocument' = pendingDocument
    /\ res' = [res EXCEPT ![p].out = IF tag = "" THEN @ ELSE @ \cup {tag}]
    /\ pc' = [pc EXCEPT ![p] = next]

\* pendingDocument.delete({where: {id}}): throws when the row is gone
DeletePending(p, tag, next) ==
    IF loc[p].pendingId \in PendingIds
    THEN /\ pendingDocument' = Without(pendingDocument, loc[p].pendingId)
         /\ res' = [res EXCEPT ![p] = [@ EXCEPT
                        !.pendDeleted = @ \cup {loc[p].pendingId},
                        !.out = IF tag = "" THEN @ ELSE @ \cup {tag}]]
         /\ pc' = [pc EXCEPT ![p] = next]
    ELSE /\ Throw(p)
         /\ UNCHANGED pendingDocument

\* the prompts sent so far: one per pending row ever created
PromptedIds == 1..(nextId.pending - 1)

\* answerCallbackQuery, split of callback.data, pendingDocument.findUnique;
\* callback.from is whoever pressed the button, and is not looked at
CallbackFind(p) ==
    /\ MayStart(p)
    /\ \E chat \in Chats, user \in Chats \cup {Stranger},
          action \in {"add", "replace", "cancel"}, pendingId \in PromptedIds :
        LET found == pendingId \in PendingIds
            pending == IF found THEN pendingDocument[pendingId] ELSE NoPending
        IN  /\ loc' = [loc EXCEPT ![p] = [Begin(p, "callback", chat) EXCEPT
                           !.user = user, !.action = action,
                           !.pendingId = pendingId, !.pending = pending]]
            /\ res' = [res EXCEPT ![p] = [ResIdle EXCEPT
                           !.out = IF found THEN {} ELSE {"expired"},
                           !.first = pendingId \notin hist.attempted,
                           !.expired = found /\ now > pending.expiresAt,
                           !.goneBefore = found /\ pending.duplicateId \notin DocIds,
                           !.docsBefore = DocIds]]
            /\ hist' = [hist EXCEPT !.attempted = @ \cup {pendingId}]
            /\ pc' = [pc EXCEPT ![p] =
                        IF ~found THEN "done"
                        ELSE IF action = "cancel" THEN "cb_cancel"
                        ELSE IF action = "add" THEN "cb_add"
                        ELSE "cb_replace_find"]
    /\ nreq' = nreq + 1
    /\ UNCHANGED <<documents, measurements, pendingDocument, batchPending,
                   now, nextId, overlap, call, mediaGroupPending>>

\* cancel: delete the pending row, report the cancellation
CallbackCancel(p) ==
    /\ pc[p] = "cb_cancel"
    /\ DeletePending(p, "cancelled", "done")
    /\ UNCHANGED <<documents, measurements, batchPending, now, nextId, loc,
                   nreq, overlap, call, mediaGroupPending, hist>>

\* add: document.create from the stored payload, with its measurements
CallbackAddCreate(p) ==
    /\ pc[p] = "cb_add"
    /\ LET docData == loc[p].pending.documentData
       IN  CreateDocument(nextId.document, docData, ParseDate(docData.date))
    /\ res' = [res EXCEPT ![p].docsCreated = @ \cup {nextId.document}]
    /\ hist' = [hist EXCEPT !.mutated = @ \cup {<<loc[p].pendingId, loc[p].req>>}]
    /\ pc' = [pc EXCEPT ![p] = "cb_add_delete"]
    /\ UNCHANGED <<pendingDocument, batchPending, now, loc, nreq, overlap, call, mediaGroupPending>>

CallbackAddDelete(p) ==
    /\ pc[p] = "cb_add_delete"
    /\ DeletePending(p, "added", "done")
    /\ UNCHANGED <<documents, measurements, batchPending, now, nextId, loc,
                   nreq, overlap, call, mediaGroupPending, hist>>

\* replace: document.findUnique of the colliding document
CallbackReplaceFind(p) ==
    /\ pc[p] = "cb_replace_find"
    /\ IF loc[p].pending.duplicateId = 0
       THEN /\ res' = Report(p, "no_duplicate")
            /\ pc' = [pc EXCEPT ![p] = "done"]
       ELSE IF loc[p].pending.duplicateId \notin DocIds
       THEN /\ res' = [res EXCEPT ![p] = [@ EXCEPT !.docMissing = TRUE,
                                                   !.out = @ \cup {"gone"}]]
            /\ pc' = [pc EXCEPT ![p] = "cb_gone_delete"]
       ELSE /\ pc' = [pc EXCEPT ![p] = "cb_replace_update"]
            /\ UNCHANGED res
    /\ UNCHANGED <<documents, measurements, pendingDocument, batchPending,
                   now, nextId, loc, nreq, overlap, call, mediaGroupPending, hist>>

\* a gone branch that returns without deleting the stale decision
CallbackGoneReturn(p) ==
    /\ pc[p] = "cb_gone_delete"
    /\ pc' = [pc EXCEPT ![p] = "done"]
    /\ UNCHANGED <<documents, measurements, pendingDocument, batchPending,
                   now, nextId, loc, res, nreq, overlap, call, mediaGroupPending, hist>>

CallbackGoneDelete(p) ==
    /\ pc[p] = "cb_gone_delete"
    /\ DeletePending(p, "", "done")
    /\ UNCHANGED <<documents, measurements, batchPending, now, nextId, loc,
                   nreq, overlap, call, mediaGroupPending, hist>>

\* the fields document.update overwrites
ReplacedDocument(doc, docData) ==
    [doc EXCEPT !.date = ParseDate(docData.date),
                !.category = docData.category,
                !.subtype = docData.subtype,
                !.title = docData.title,
                !.doctor = docData.doctor,
                !.conclusion = docData.conclusion,
                !.content = docData.content,
                !.fileUrl = docData.fileUrl,
                \* keyValues: docData.keyValues || undefined
                !.keyValues = IF docData.keyValues = NullKV THEN @
                              ELSE docData.keyValues]

\* a replace that also regenerates the measurements of the document from
\* the payload
CallbackReplaceRegenerate(p) ==
    /\ pc[p] = "cb_replace_update"
    /\ LET id == loc[p].pending.duplicateId
           docData == loc[p].pending.documentData
       IN  IF id \in DocIds
           THEN /\ documents' = [documents EXCEPT ![id] =
                       ReplacedDocument(@, docData)]
                /\ measurements' = {m \in measurements : m.documentId # id} \cup
                       MeasurementRows(id, extractMeasurements(docData.keyValues),
                                       ParseDate(docData.date))
                /\ res' = [res EXCEPT ![p].docsUpdated = @ \cup {id}]
                /\ hist' = [hist EXCEPT !.mutated =
                                @ \cup {<<loc[p].pendingId, loc[p].req>>}]
                /\ pc' = [pc EXCEPT ![p] = "cb_replace_delete"]
           ELSE /\ Throw(p)
                /\ UNCHANGED <<documents, measurements, hist>>
    /\ UNCHANGED <<pendingDocument, batchPending, now, nextId, loc, nreq, overlap, call, mediaGroupPending>>

\* document.update({where: {id: duplicateId}}): throws when the row is gone
CallbackReplaceUpdate(p) ==
    /\ pc[p] = "cb_replace_update"
    /\ LET id == loc[p].pending.duplicateId
       IN  IF id \in DocIds
           THEN /\ documents' = [documents EXCEPT ![id] =
                       ReplacedDocument(@, loc[p].pending.documentData)]
                /\ res' = [res EXCEPT ![p].docsUpdated = @ \cup {id}]
                /\ hist' = [hist EXCEPT !.mutated =
                                @ \cup {<<loc[p].pendingId, loc[p].req>>}]
                /\ pc' = [pc EXCEPT ![p] = "cb_replace_delete"]
           ELSE /\ Throw(p)
                /\ UNCHANGED <<documents, hist>>
    /\ UNCHANGED <<measurements, pendingDocument, batchPending, now, nextId,
                   loc, nreq, overlap, call, mediaGroupPending>>

CallbackReplaceDelete(p) ==
    /\ pc[p] = "cb_replace_delete"
    /\ DeletePending(p, "replaced", "done")
    /\ UNCHANGED <<documents, measurements, batchPending, now, nextId, loc,
                   nreq, overlap, call, mediaGroupPending, hist>>

(***************************************************************************)
(* The batch collector: '/batch', '/cancel', '/done' and photos.           *)
(***************************************************************************)
\* '/batch': findFirst({chatId}) of any row of the conversation
BatchStart(p) ==
    /\ MayStart(p)
    /\ \E chat \in Chats :
        /\ loc' = [loc EXCEPT ![p] = Begin(p, "start", chat)]
        /\ res' = [res EXCEPT ![p] = [ResIdle EXCEPT
                       !.markerSeen = MarkerRows(chat) # {}]]
        /\ pc' = [pc EXCEPT ![p] = IF RowsOf(chat) # {} THEN "bs_count"
                                   ELSE "bs_create"]
    /\ nreq' = nreq + 1
    /\ UNCHANGED <<documents, measurements, pendingDocument, batchPending,
                   now, nextId, overlap, call, mediaGroupPending, hist>>

\* a row exists: count of the rows that are not the marker, reported as the
\* number of pages collected
BatchStartCount(p) ==
    /\ pc[p] = "bs_count"
    /\ res' = [res EXCEPT ![p] = [@ EXCEPT
                   !.count = Cardinality(NotMarkerRows(loc[p].chat)),
                   !.pagesSeen = Cardinality(PageRows(loc[p].chat)),
                   !.out = @ \cup {"already"}]]
    /\ pc' = [pc EXCEPT ![p] = "done"]
    /\ UNCHANGED <<documents, measurements, pendingDocument, batchPending,
                   now, nextId, loc, nreq, overlap, call, mediaGroupPending, hist>>

\* no row exists: the marker of the new session is created
BatchStartCreate(p) ==
    /\ pc[p] = "bs_create"
    /\ batchPending' = batchPending \cup
           {BatchRow(nextId.batch, loc[p].chat, BATCH_MARKER, 0, "marker")}
    /\ nextId' = [nextId EXCEPT !.batch = @ + 1]
    /\ res' = [res EXCEPT ![p] = [@ EXCEPT
                   !.batchCreated = @ \cup {nextId.batch},
                   !.out = @ \cup {"started"}]]
    /\ pc' = [pc EXCEPT ![p] = "done"]
    /\ UNCHANGED <<documents, measurements, pendingDocument, now, loc, nreq,
                   overlap, call, mediaGroupPending, hist>>

\* '/cancel': count of the pages
BatchCancel(p) ==
    /\ MayStart(p)
    /\ \E chat \in Chats :
        /\ loc' = [loc EXCEPT ![p] = [Begin(p, "cancel", chat) EXCEPT
                       !.pageCount = Cardinality(NotMarkerRows(chat))]]
        /\ res' = [res EXCEPT ![p] = [ResIdle EXCEPT
                       !.markerSeen = MarkerRows(chat) # {},
                       !.pagesSeen = Cardinality(PageRows(chat))]]
    /\ pc' = [pc EXCEPT ![p] = "bc_delete"]
    /\ nreq' = nreq + 1
    /\ UNCHANGED <<documents, measurements, pendingDocument, batchPending,
                   now, nextId, overlap, call, mediaGroupPending, hist>>

\* deleteMany({chatId}), then the message chosen by deleted.count
BatchCancelDelete(p) ==
    /\ pc[p] = "bc_delete"
    /\ LET deleted == RowsOf(loc[p].chat)
       IN  /\ batchPending' = batchPending \ deleted
           /\ res' = [res EXCEPT ![p] = [@ EXCEPT
                          !.batchDeleted = @ \cup {r.id : r \in deleted},
                          !.count = loc[p].pageCount,
                          !.out = @ \cup {IF deleted # {} THEN "cancelled"
                                          ELSE "nothing"}]]
    /\ pc' = [pc EXCEPT ![p] = "done"]
    /\ UNCHANGED <<documents, measurements, pendingDocument, now, nextId, loc,
                   nreq, overlap, call, mediaGroupPending, hist>>

\* '/done', processBatch: findMany of the rows that are not the marker
BatchDone(p) ==
    /\ MayStart(p)
    /\ \E chat \in Chats :
        LET pages == OrderByReceivedAt(NotMarkerRows(chat))
        IN  /\ loc' = [loc EXCEPT ![p] = [Begin(p, "finish", chat) EXCEPT
                           !.pages = pages]]
            /\ res' = [res EXCEPT ![p] = [ResIdle EXCEPT
                           !.markerSeen = MarkerRows(chat) # {},
                           !.pagesSeen = Len(pages)]]
            /\ pc' = [pc EXCEPT ![p] = IF Len(pages) = 0 THEN "bd_marker"
                                       ELSE "bd_forward"]
    /\ nreq' = nreq + 1
    /\ UNCHANGED <<documents, measurements, pendingDocument, batchPending,
                   now, nextId, overlap, call, mediaGroupPending, hist>>

\* no pages: findFirst of the marker
BatchDoneMarker(p) ==
    /\ pc[p] = "bd_marker"
    /\ IF MarkerRows(loc[p].chat) # {}
       THEN /\ pc' = [pc EXCEPT ![p] = "bd_clear"]
            /\ UNCHANGED res
       ELSE /\ res' = Report(p, "nothing")
            /\ pc' = [pc EXCEPT ![p] = "done"]
    /\ UNCHANGED <<documents, measurements, pendingDocument, batchPending,
                   now, nextId, loc, nreq, overlap, call, mediaGroupPending, hist>>

\* no pages but a marker: deleteMany({chatId})
BatchDoneClear(p) ==
    /\ pc[p] = "bd_clear"
    /\ LET deleted == RowsOf(loc[p].chat)
       IN  /\ batchPending' = batchPending \ deleted
           /\ res' = [res EXCEPT ![p] = [@ EXCEPT
                          !.batchDeleted = @ \cup {r.id : r \in deleted},
                          !.out = @ \cup {"empty"}]]
    /\ pc' = [pc EXCEPT ![p] = "done"]
    /\ UNCHANGED <<documents, measurements, pendingDocument, now, nextId, loc,
                   nreq, overlap, call, mediaGroupPending, hist>>

\* pages found: deleteMany({chatId}); the pages are fetched and joined into
\* one PDF, the PDF is uploaded, and the pages are handed to the analyzer.
\* A row whose fileUrl is no URL makes fetch throw.
BatchDoneForward(p) ==
    /\ pc[p] = "bd_forward"
    /\ LET deleted == RowsOf(loc[p].chat)
           pages == loc[p].pages
       IN  /\ batchPending' = batchPending \ deleted
           /\ IF \E k \in DOMAIN pages : pages[k].fileUrl.scheme # BlobUrl
              THEN /\ res' = [res EXCEPT ![p] = [@ EXCEPT
                                 !.batchDeleted = @ \cup {r.id : r \in deleted},
                                 !.out = @ \cup {"error"}]]
                   /\ pc' = [pc EXCEPT ![p] = "done"]
                   /\ UNCHANGED <<loc, nextId, hist>>
              ELSE \E an \in Analyses :
                   /\ res' = [res EXCEPT ![p].batchDeleted =
                                  @ \cup {r.id : r \in deleted}]
                   /\ loc' = [loc EXCEPT ![p] = [@ EXCEPT
                                  !.analysis = an, !.fileUrl = nextId.blob,
                                  !.pageCount = Len(pages)]]
                   /\ nextId' = [nextId EXCEPT !.blob = @ + 1]
                   /\ hist' = [hist EXCEPT !.forwarded = @ \cup
                                  {<<pages[k].id, loc[p].req>> : k \in DOMAIN pages}]
                   /\ pc' = [pc EXCEPT ![p] = "in_find"]
    /\ UNCHANGED <<documents, measurements, pendingDocument, now, nreq, overlap, call, mediaGroupPending>>

\* a photo: getUserState; while a vital sign is awaited the photo is read as
\* its (empty) text and refused
ReceivePhoto(p) ==
    /\ MayStart(p)
    /\ \E chat \in Chats :
        /\ loc' = [loc EXCEPT ![p] = Begin(p, "photo", chat)]
        /\ IF StateRows(chat) # {}
           THEN /\ res' = [res EXCEPT ![p] = [ResIdle EXCEPT
                               !.out = {"unrecognized"}]]
                /\ pc' = [pc EXCEPT ![p] = "done"]
           ELSE /\ res' = [res EXCEPT ![p] = ResIdle]
                /\ pc' = [pc EXCEPT ![p] = "ph_find"]
    /\ nreq' = nreq + 1
    /\ UNCHANGED <<documents, measurements, pendingDocument, batchPending,
                   now, nextId, overlap, call, mediaGroupPending, hist>>

\* findFirst({chatId}): with a row the photo goes to addToBatch, without one
\* to processPhoto (download, upload, analysis)
PhotoFind(p) ==
    /\ pc[p] = "ph_find"
    /\ IF RowsOf(loc[p].chat) # {}
       THEN /\ res' = [res EXCEPT ![p].markerSeen = MarkerRows(loc[p].chat) # {}]
            /\ pc' = [pc EXCEPT ![p] = "ph_add"]
            /\ UNCHANGED <<loc, nextId>>
       ELSE \E an \in Analyses :
            /\ loc' = [loc EXCEPT ![p] = [@ EXCEPT
                           !.analysis = an, !.fileUrl = nextId.blob,
                           !.pageCount = 1]]
            /\ nextId' = [nextId EXCEPT !.blob = @ + 1]
            /\ pc' = [pc EXCEPT ![p] = "in_find"]
            /\ UNCHANGED res
    /\ UNCHANGED <<documents, measurements, pendingDocument, batchPending,
                   now, nreq, overlap, call, mediaGroupPending, hist>>

\* addToBatch: download, upload, batchPending.create of the page
AddToBatch(p) ==
    /\ pc[p] = "ph_add"
    /\ batchPending' = batchPending \cup
           {BatchRow(nextId.batch, loc[p].chat, BlobUrl, nextId.blob, "image/jpeg")}
    /\ nextId' = [nextId EXCEPT !.batch = @ + 1, !.blob = @ + 1]
    /\ res' = [res EXCEPT ![p].batchCreated = @ \cup {nextId.batch}]
    /\ hist' = [hist EXCEPT !.submitted = @ \cup {<<nextId.batch, loc[p].req>>}]
    /\ pc' = [pc EXCEPT ![p] = "ph_count"]
    /\ UNCHANGED <<documents, measurements, pendingDocument, now, loc, nreq,
                   overlap, call, mediaGroupPending>>

\* addToBatch: count of the pages, reported as the number of the page added
AddToBatchCount(p) ==
    /\ pc[p] = "ph_count"
    /\ res' = [res EXCEPT ![p] = [@ EXCEPT
                   !.count = Cardinality(NotMarkerRows(loc[p].chat)),
                   !.out = @ \cup {"page_added"}]]
    /\ pc' = [pc EXCEPT ![p] = "done"]
    /\ UNCHANGED <<documents, measurements, pendingDocument, batchPending,
                   now, nextId, loc, nreq, overlap, call, mediaGroupPending, hist>>

(***************************************************************************)
(* The diary's input state, kept in batchPending.                          *)
(***************************************************************************)
\* a vital-sign button, setUserState: deleteMany of the old state rows
SetUserState(p) ==
    /\ MayStart(p)
    /\ \E chat \in Chats :
        /\ loc' = [loc EXCEPT ![p] = Begin(p, "vital", chat)]
        /\ batchPending' = batchPending \ StateRows(chat)
        /\ res' = [res EXCEPT ![p] = [ResIdle EXCEPT
                       !.batchDeleted = {r.id : r \in StateRows(chat)}]]
    /\ pc' = [pc EXCEPT ![p] = "us_create"]
    /\ nreq' = nreq + 1
    /\ UNCHANGED <<documents, measurements, pendingDocument, now, nextId,
                   overlap, call, mediaGroupPending, hist>>

\* setUserState: create of the new state row, then the request for the value
SetUserStateCreate(p) ==
    /\ pc[p] = "us_create"
    /\ batchPending' = batchPending \cup
           {BatchRow(nextId.batch, loc[p].chat, STATE_PREFIX,
                     "awaiting_vital:temperature", "state")}
    /\ nextId' = [nextId EXCEPT !.batch = @ + 1]
    /\ res' = [res EXCEPT ![p] = [@ EXCEPT
                   !.batchCreated = @ \cup {nextId.batch},
                   !.out = @ \cup {"ask_value"}]]
    /\ pc' = [pc EXCEPT ![p] = "done"]
    /\ UNCHANGED <<documents, measurements, pendingDocument, now, loc, nreq,
                   overlap, call, mediaGroupPending, hist>>

\* a text that is no command: getUserState; while a vital sign is awaited
\* the text is parsed and, when it is a number, recorded
ReceiveText(p) ==
    /\ MayStart(p)
    /\ \E chat \in Chats, parsed \in BOOLEAN :
        /\ loc' = [loc EXCEPT ![p] = Begin(p, "text", chat)]
        /\ IF StateRows(chat) = {}
           THEN /\ res' = [res EXCEPT ![p] = [ResIdle EXCEPT !.out = {"unknown"}]]
                /\ pc' = [pc EXCEPT ![p] = "done"]
           ELSE IF ~parsed
           THEN /\ res' = [res EXCEPT ![p] = [ResIdle EXCEPT
                               !.out = {"unrecognized"}]]
                /\ pc' = [pc EXCEPT ![p] = "done"]
           ELSE /\ res' = [res EXCEPT ![p] = ResIdle]
                /\ pc' = [pc EXCEPT ![p] = "us_clear"]
    /\ nreq' = nreq + 1
    /\ UNCHANGED <<documents, measurements, pendingDocument, batchPending,
                   now, nextId, overlap, call, mediaGroupPending, hist>>

\* clearUserState: deleteMany of the state rows, then the confirmation
ClearUserState(p) ==
    /\ pc[p] = "us_clear"
    /\ LET deleted == StateRows(loc[p].chat)
       IN  /\ batchPending' = batchPending \ deleted
           /\ res' = [res EXCEPT ![p] = [@ EXCEPT
                          !.batchDeleted = @ \cup {r.id : r \in deleted},
                          !.out = @ \cup {"recorded"}]]
    /\ pc' = [pc EXCEPT ![p] = "done"]
    /\ UNCHANGED <<documents, measurements, pendingDocument, now, nextId, loc,
                   nreq, overlap, call, mediaGroupPending, hist>>

(***************************************************************************)
(* Failures.  Any service a handler calls may throw: the record store, the *)
(* messenger (sendMessage throws when the answer is not ok), the download  *)
(* of the file, the blob store, the analyzer.  The operation that throws   *)
(* changes nothing; control passes to the innermost catch around it.       *)
(***************************************************************************)
Services == {"store", "messenger", "download", "blob", "analyzer"}

\* the services called by the operation the handler in slot p runs next
ServicesAt(p) ==
    IF pc[p] = "ph_find" /\ RowsOf(loc[p].chat) = {} THEN Services
    ELSE IF pc[p] = "bd_forward" THEN Services
    ELSE IF pc[p] = "ph_add" THEN {"download", "blob", "store"}
    ELSE IF pc[p] = "in_pend_update" THEN {"messenger", "store"}
    ELSE {"store"}

\* the catch blocks that may receive what service svc throws at a label:
\* "callback" is the catch of handleCallbackQuery, "handler" the catch of
\* processPhoto, processDocument, processBatch or addToBatch, "post" the
\* catch of POST.  processPhoto sends one message before its try and one
\* inside it; processBatch sends its message before its try.
CatchSites(label, svc) ==
    IF label \in {"cb_cancel", "cb_add", "cb_add_delete", "cb_replace_find",
                  "cb_gone_delete", "cb_replace_update", "cb_replace_delete"}
    THEN {"callback"}
    ELSE IF label \in {"in_find", "in_pend_create", "in_pend_update",
                       "in_doc_create", "ph_add", "ph_count"}
    THEN {"handler"}
    ELSE IF label \in {"ph_find", "bd_forward"}
            /\ svc \in {"download", "blob", "analyzer"}
    THEN {"handler"}
    ELSE IF label = "ph_find" /\ svc = "messenger"
    THEN {"post", "handler"}
    ELSE {"post"}

\* catch (error) of POST: console.error, return {ok: true}
PostRethrows(p) == pc' = [pc EXCEPT ![p] = "crashed"]

PostCatch(p) == pc' = [pc EXCEPT ![p] = "done"]

\* what the catch at a site does with the error: handleCallbackQuery tries
\* editMessage and sendMessage, each in a try of its own, and returns; the
\* other handlers send the error message, and when that throws too the
\* error reaches POST
Caught(p, svc, site, notified, before) ==
    /\ res' = [res EXCEPT ![p] = [before EXCEPT
                   !.failed = svc,
                   !.out = IF site # "post" /\ notified THEN @ \cup {"error"}
                           ELSE @]]
    /\ IF site = "callback" \/ (site = "handler" /\ notified)
       THEN pc' = [pc EXCEPT ![p] = "done"]
       ELSE PostCatch(p)

\* the operation a running handler is about to perform throws; processBatch
\* has deleted the rows of the conversation before it sends its message,
\* fetches the pages and calls the analyzer
Fail(p) ==
    /\ pc[p] \notin {"idle", "done", "crashed"}
    /\ \E svc \in ServicesAt(p), notified \in BOOLEAN :
        \E site \in CatchSites(pc[p], svc) :
            /\ Caught(p, svc, site, notified, res[p])
            /\ batchPending' =
                   IF pc[p] = "bd_forward" /\ svc # "store"
                   THEN batchPending \ RowsOf(loc[p].chat)
                   ELSE batchPending
    /\ UNCHANGED <<documents, measurements, pendingDocument, now, nextId, loc,
                   nreq, overlap, call, mediaGroupPending, hist>>

\* the first operation of a request throws: answerCallbackQuery and the
\* findUnique of a callback, getUserState and the first store operation of a
\* command, and for a file also the download, the upload and the analysis
FailAtStart(p) ==
    /\ MayStart(p)
    /\ \E chat \in Chats, notified \in BOOLEAN, svc \in Services,
          kind \in {"callback", "document", "photo", "start", "cancel",
                    "finish", "vital", "text"} :
        LET inTry == kind = "document" /\ svc \in {"download", "blob", "analyzer"}
            site == IF kind = "callback" /\ svc = "store" THEN "callback"
                    ELSE IF inTry THEN "handler"
                    ELSE "post"
        IN  /\ svc \in {"store", "messenger"} \/ inTry
            /\ svc = "messenger" => kind \in {"callback", "document"}
            /\ inTry => StateRows(chat) = {}
            /\ loc' = [loc EXCEPT ![p] = Begin(p, kind, chat)]
            /\ Caught(p, svc, site, notified, ResIdle)
    /\ nreq' = nreq + 1
    /\ UNCHANGED <<documents, measurements, pendingDocument, batchPending,
                   now, nextId, overlap, call, mediaGroupPending, hist>>

\* the last message of a handler that did its work throws (sendMessage after
\* the store operation)
NotifyFails(p) ==
    /\ pc[p] = "done"
    /\ res[p].failed = ""
    /\ res[p].out # {}
    /\ \E notified \in BOOLEAN :
        LET site == IF loc[p].kind = "callback" THEN "callback"
                    ELSE IF /\ loc[p].kind \in {"photo", "document", "finish"}
                            /\ res[p].out \cap {"unrecognized", "nothing",
                                                "empty", "error"} = {}
                    THEN "handler"
                    ELSE "post"
        IN  Caught(p, "messenger", site, notified, [res[p] EXCEPT !.out = {}])
    /\ UNCHANGED <<documents, measurements, pendingDocument, batchPending,
                   now, nextId, loc, nreq, overlap, call, mediaGroupPending, hist>>

(***************************************************************************)
(* The library functions applied on their own: the input is drawn when the *)
(* call is made, the output is what the function returns.                  *)
(***************************************************************************)
\* DocumentData of lib/duplicates
DupDoc(doctor, date, conclusion, keyValues, title) ==
    [id |-> 0, date |-> date, title |-> title, doctor |-> doctor,
     conclusion |-> conclusion, keyValues |-> keyValues]

\* the fields of a stored document that an analysis may repeat
Sample ==
    [doctor |-> <<"I", "v", "a", "n", "o", "v", " ", "I", ".", "I", ".">>,
     conclusion |-> <<"r", "a", "k", " ", "p", "r", "o", "s", "t", "a", "t", "y", " ", "b", "e", "z", " ", "d", "i", "n", "a", "m", "i", "k", "i">>,
     keyValues |-> << <<<<"P", "S", "A">>, <<"4", ".", "5">>>> >>,
     title |-> <<"U", "Z", "I", " ", "p", "o", "ch", "e", "k">>,
     visit |-> <<"P", "r", "i", "yo", "m", " ", "u", "r", "o", "l", "o", "g", "a">>]

ExistingDocs ==
    {DupDoc(doctor, date, conclusion, keyValues, title) :
        doctor \in {Null, Sample.doctor},
        date \in {DateOf(10), DateOf(24 + 9)},
        conclusion \in {Null, Sample.conclusion},
        keyValues \in {NullKV, Sample.keyValues},
        title \in {Sample.title, Sample.visit}}

\* AnalysisData of lib/duplicates: the doctor in another case and spacing or
\* another doctor, a conclusion with one more word or another one, the same
\* value with a trailing space or another value, a title with one more word
\* or another one
NewAnalyses ==
    {[doctor |-> doctor, date |-> date, conclusion |-> conclusion,
      keyValues |-> keyValues, title |-> title] :
        doctor \in {Null, <<" ", "i", "v", "a", "n", "o", "v", " ", "i", ".", "i", ".">>, <<"P", "e", "t", "r", "o", "v", " ", "P", ".", "P", ".">>},
        date \in {DateString(0), GarbageDateString},
        conclusion \in {Null, <<"R", "a", "k", " ", "p", "r", "o", "s", "t", "a", "t", "y", " ", "b", "e", "z", " ", "d", "i", "n", "a", "m", "i", "k", "i", " ", "s", "t", "a", "b", "i", "l", "soft", "n", "o">>, <<"n", "o", "r", "m", "a">>},
        keyValues \in {NullKV, << <<<<"P", "S", "A">>, <<"4", ".", "5", " ">>>> >>, << <<<<"P", "S", "A">>, <<"9">>>> >>},
        title \in {Null, <<"u", "z", "i", " ", "p", "o", "ch", "e", "k", " ", "k", "o", "n", "t", "r", "o", "l", "soft">>, <<"S", "p", "r", "a", "v", "k", "a">>}}

\* the document lists handed to findDuplicate: up to MaxDocs documents, the
\* i-th with id i
MaxDocs == 2
DocLists ==
    LET FindDocs ==
            {DupDoc(Sample.doctor, DateOf(10), Null, NullKV, Sample.visit),
             DupDoc(Null, DateOf(24 + 9), Null, NullKV, Sample.title),
             DupDoc(Null, DateOf(24 + 9), Sample.conclusion, Sample.keyValues,
                    <<"S", "p", "r", "a", "v", "k", "a">>)}
    IN  UNION {{[i \in 1..n |-> [ds[i] EXCEPT !.id = i]] :
                   ds \in [1..n -> FindDocs]} : n \in 0..MaxDocs}

\* the strings an analysis may carry as category and as subtype: every
\* value of the taxonomy, and strings with and without a keyword
RawTypes ==
    LET RawCategories ==
            {Null, <<>>, CatConclusions, CatAnalyses, CatStudies, Other,
         <<"Z", "a", "k", "l", "yu", "ch", "e", "n", "i", "e", " ", "v", "r", "a", "ch", "a">>, <<" ", "A", "N", "A", "L", "I", "Z", "Y", " ">>, <<"M", "R", "T">>, <<"s", "p", "r", "a", "v", "k", "a">>}
        RawSubtypes ==
            {ALL_SUBTYPES[i].value : i \in DOMAIN ALL_SUBTYPES} \cup
        {Null, <<>>, <<"K", "T">>, <<"P", "S", "A", " ", "o", "b", "shch", "i", "j">>, <<"O", "s", "m", "o", "t", "r", " ", "u", "r", "o", "l", "o", "g", "a">>, <<"s", "p", "r", "a", "v", "k", "a">>, <<" ", "K", "r", "o", "v", "soft", " ">>}
    IN  RawCategories \X RawSubtypes

\* the key-value records handed to extractMeasurements: null, and up to
\* MaxPairs pairs with distinct keys; a key is a catalog key, an alias (in
\* another case and spacing), a key of no metric or the name of an inherited
\* property, a value is a number with or without a unit, with a decimal
\* point or comma, or a text without a leading number
MaxPairs == 2
KeyValueRecords ==
    LET Keys ==
            {<<"G", "e", "m", "o", "g", "l", "o", "b", "i", "n">>,
             <<"_H", "_G", "_B">>,
             <<" ", "g", "e", "m", "o", "g", "l", "o", "b", "i", "n", " ">>,
             <<"P", "S", "A">>,
             <<"P", "S", "A", " ", "o", "b", "shch", "i", "j">>,
             <<"S", "O", "Eh">>,
             <<"_t", "_o", "_S", "_t", "_r", "_i", "_n", "_g">>}
        Values ==
            {<<"9", ".", "2", " ", "g", "/", "l">>,
             <<"8", "4", " ", "g", "/", "l">>,
             <<"3", "0", " ", "g", "/", "l">>,
             <<"2", "9", ",", "9">>,
             <<"1", "3", "0">>,
             <<"9", ".", "2", " ", "g", "/", "d", "l">>,
             <<"4", ".", "5", " ", "n", "g", "/", "m", "l">>,
             <<"n", "e", " ", "o", "b", "n", "a", "r", "u", "zh", "e", "n">>,
             <<>>,
             <<" ", "9", "2">>}
    IN  {NullKV} \cup
        UNION {{kv \in [1..n -> Keys \X Values] :
                   \A i, j \in 1..n : i # j => kv[i][1] # kv[j][1]} :
               n \in 0..MaxPairs}

\* the call returns out
Returns(out) ==
    /\ call' = [call EXCEPT !.out = out, !.returned = TRUE]
    /\ UNCHANGED <<documents, measurements, pendingDocument, batchPending,
                   now, nextId, pc, loc, res, nreq, overlap, hist,
                   mediaGroupPending>>

ApplyCheckDuplicate ==
    /\ call.fn = "checkDuplicate"
    /\ ~call.returned
    /\ Returns(checkDuplicate(call.in[1], call.in[2]))

ApplyFindDuplicate ==
    /\ call.fn = "findDuplicate"
    /\ ~call.returned
    /\ Returns(findDuplicate(call.in[1], call.in[2]))

ApplyNormalize ==
    /\ call.fn = "normalizeDocumentType"
    /\ ~call.returned
    /\ Returns(normalizeDocumentType(call.in[1], call.in[2]))

ApplyCalculateSimilarity ==
    /\ call.fn = "calculateSimilarity"
    /\ ~call.returned
    /\ Returns(calculateSimilarity(call.in[1], call.in[2]))

ApplyExtractMeasurements ==
    /\ call.fn = "extractMeasurements"
    /\ ~call.returned
    /\ Returns(extractMeasurements(call.in))

(***************************************************************************)
(* The web application and time.                                           *)
(***************************************************************************)
\* the Measurement rows left when Document id is deleted: the rows of the
\* document go with it (the relation is declared in the database schema,
\* which deletes them by cascade)
CascadeMeasurements(id) == {m \in measurements : m.documentId # id}

\* DELETE /api/documents/[id]; a request like the webhook's, which overlaps
\* them only when they overlap
DeleteDocument ==
    /\ nreq < MaxRequests
    /\ overlap \/ \A q \in Procs : pc[q] = "idle"
    /\ \E id \in DocIds :
        /\ documents' = Without(documents, id)
        /\ measurements' = CascadeMeasurements(id)
    /\ nreq' = nreq + 1
    /\ UNCHANGED <<pendingDocument, batchPending, now, nextId, pc, loc, res,
                   overlap, call, mediaGroupPending, hist>>

Tick ==
    /\ now < MaxTime
    /\ now' = now + 1
    /\ UNCHANGED <<documents, measurements, pendingDocument, batchPending,
                   nextId, pc, loc, res, nreq, overlap, call, mediaGroupPending, hist>>

(***************************************************************************)
(* handleMediaGroupPhoto: the photos of an album arrive one per request.   *)
(* The album of a conversation is identified by the conversation; a photo  *)
(* is identified by the request that brought it.                           *)
(***************************************************************************)
GroupRows(mediaGroupId) ==
    {r \in mediaGroupPending : r.mediaGroupId = mediaGroupId}

\* POST with message.photo and message.media_group_id:
\* mediaGroupPending.create
MediaGroupPhoto(p) ==
    /\ MayStart(p)
    /\ \E chat \in Chats :
        /\ loc' = [loc EXCEPT ![p] = Begin(p, "album", chat)]
        /\ mediaGroupPending' = mediaGroupPending \cup
               {[id |-> nreq + 1, mediaGroupId |-> chat, chatId |-> chat,
                 fileId |-> nreq + 1, receivedAt |-> nreq + 1]}
        /\ hist' = [hist EXCEPT !.photos = @ \cup {<<chat, nreq + 1>>}]
    /\ res' = [res EXCEPT ![p] = ResIdle]
    /\ pc' = [pc EXCEPT ![p] = "mg_count"]
    /\ nreq' = nreq + 1
    /\ UNCHANGED <<documents, measurements, pendingDocument, batchPending,
                   now, nextId, overlap, call>>

\* mediaGroupPending.count; the request that counts one row is the leader:
\* it announces the album and waits for the other photos
MediaGroupCount(p) ==
    /\ pc[p] = "mg_count"
    /\ LET existingCount == Cardinality(GroupRows(loc[p].chat))
       IN  IF existingCount = 1
           THEN /\ res' = Report(p, "receiving")
                /\ hist' = [hist EXCEPT !.leaders = @ \cup
                               {<<loc[p].chat, loc[p].req>>}]
                /\ pc' = [pc EXCEPT ![p] = "mg_find"]
           ELSE /\ pc' = [pc EXCEPT ![p] = "done"]
                /\ UNCHANGED <<res, hist>>
    /\ UNCHANGED <<documents, measurements, pendingDocument, batchPending,
                   now, nextId, loc, nreq, overlap, call, mediaGroupPending>>

\* after MEDIA_GROUP_WAIT_TIME: mediaGroupPending.findMany in the order of
\* arrival; with no row left the leader returns
MediaGroupFind(p) ==
    /\ pc[p] = "mg_find"
    /\ LET pendingPhotos == OrderByReceivedAt(GroupRows(loc[p].chat))
       IN  IF Len(pendingPhotos) = 0
           THEN /\ pc' = [pc EXCEPT ![p] = "done"]
                /\ UNCHANGED loc
           ELSE /\ loc' = [loc EXCEPT ![p].pages = pendingPhotos]
                /\ pc' = [pc EXCEPT ![p] = "mg_delete"]
    /\ UNCHANGED <<documents, measurements, pendingDocument, batchPending,
                   now, nextId, res, nreq, overlap, call, mediaGroupPending,
                   hist>>

\* mediaGroupPending.deleteMany of the album, then the count of pages is
\* announced
MediaGroupDelete(p) ==
    /\ pc[p] = "mg_delete"
    /\ mediaGroupPending' = mediaGroupPending \ GroupRows(loc[p].chat)
    /\ res' = Report(p, "received")
    /\ pc' = [pc EXCEPT ![p] = "mg_save"]
    /\ UNCHANGED <<documents, measurements, pendingDocument, batchPending,
                   now, nextId, loc, nreq, overlap, call, hist>>

\* the pages are downloaded and uploaded, analysed as one document, and
\* document.create saves it (this revision writes no measurements); an
\* error is reported to the conversation
MediaGroupSave(p) ==
    /\ pc[p] = "mg_save"
    /\ \E an \in Analyses :
        LET pendingPhotos == loc[p].pages
            photoCount == Len(pendingPhotos)
            date == IF an.date.k # "absent" THEN ParseDate(an.date)
                    ELSE DateOf(now)
            MultipageTitle ==
                <<"M", "n", "o", "g", "o", "s", "t", "r", "a", "n", "i", "ch", "n", "y", "j", " ", "d", "o", "k", "u", "m", "e", "n", "t", " ", "i", "z", " ", "_T", "_e", "_l", "_e", "_g", "_r", "_a", "_m">>
            album(document) ==
                [mediaGroupId |-> loc[p].chat, req |-> loc[p].req,
                 document |-> document,
                 pages |-> {pendingPhotos[k].fileId : k \in DOMAIN pendingPhotos}]
        IN  IF ~date.valid
            THEN /\ res' = Report(p, "error")
                 /\ hist' = [hist EXCEPT !.albums = @ \cup {album(0)}]
                 /\ UNCHANGED <<documents, nextId>>
            ELSE /\ documents' = With(documents, nextId.document,
                        [id |-> nextId.document, date |-> date,
                         title |-> IF Falsy(an.title) THEN MultipageTitle
                                   ELSE an.title,
                         doctor |-> an.doctor, conclusion |-> an.conclusion,
                         keyValues |-> an.keyValues, content |-> photoCount,
                         fileUrl |-> nextId.blob])
                 /\ nextId' = [nextId EXCEPT !.document = @ + 1,
                                             !.blob = @ + photoCount]
                 /\ res' = [res EXCEPT ![p] = [@ EXCEPT
                                !.docsCreated = @ \cup {nextId.document},
                                !.out = @ \cup {"saved"}]]
                 /\ hist' = [hist EXCEPT !.albums = @ \cup
                                {album(nextId.document)}]
    /\ pc' = [pc EXCEPT ![p] = "done"]
    /\ UNCHANGED <<measurements, pendingDocument, batchPending, now, loc,
                   nreq, overlap, call, mediaGroupPending>>

(***************************************************************************)
(* Specifications.                                                         *)
(***************************************************************************)
\* an Active session of conversation 1 into which two pages were added
ActiveBatch ==
    {BatchRow(1, 1, BATCH_MARKER, 0, "marker"),
     BatchRow(2, 1, BlobUrl, 1, "image/jpeg"),
     BatchRow(3, 1, BlobUrl, 2, "image/jpeg")}

InitStore(stores, batches) ==
    /\ documents \in stores
    /\ measurements = {}
    /\ pendingDocument = [i \in {} |-> NoPending]
    /\ batchPending \in batches
    /\ mediaGroupPending = {}
    /\ now = 0
    /\ nextId = [document |-> Cardinality(DOMAIN documents) + 1, pending |-> 1,
                 batch |-> Cardinality(batchPending) + 1,
                 blob |-> Cardinality({r \in batchPending :
                                          r.fileUrl.scheme = BlobUrl}) + 1]
    /\ pc = [p \in Procs |-> "idle"]
    /\ loc = [p \in Procs |-> LocIdle]
    /\ res = [p \in Procs |-> ResIdle]
    /\ nreq = 0
    /\ hist = NoHistory

Init ==
    InitStore({EmptyStore, OneDocStore}, {{}}) /\ overlap = TRUE /\ call = NoCall
SeqInit ==
    InitStore({EmptyStore, OneDocStore}, {{}}) /\ overlap = FALSE /\ call = NoCall
FullInit ==
    InitStore({OneDocStore, FullStore}, {{}}) /\ overlap = FALSE /\ call = NoCall
BatchInit ==
    InitStore({EmptyStore}, {{}, ActiveBatch}) /\ overlap = TRUE /\ call = NoCall
SeqBatchInit ==
    InitStore({EmptyStore}, {{}, ActiveBatch}) /\ overlap = FALSE /\ call = NoCall
FailInit ==
    /\ InitStore({EmptyStore, OneDocStore}, {{}, ActiveBatch})
    /\ overlap = FALSE /\ call = NoCall

\* the texts compared by calculateSimilarity on its own: absent, empty, one
\* word, a word repeated, the same words in another order, case and
\* spacing, and texts that share some words or none
PureInit ==
    LET Texts ==
            {Null, <<>>,
             <<"b", "o", "l", "soft">>,
             <<"B", "o", "l", "soft", " ", "b", "o", "l", "soft", " ", "b", "o", "l", "soft">>,
             <<"b", "o", "l", "soft", " ", "v", " ", "s", "p", "i", "n", "e">>,
             <<"b", "o", "l", "soft", " ", "v", " ", "s", "p", "i", "n", "e", " ", "i", " ", "b", "o", "l", "soft", " ", "v", " ", "sh", "e", "e">>,
             <<"n", "o", "r", "m", "a">>,
             <<"v", " ", " ", "s", "p", "i", "n", "e", " ", "b", "o", "l", "soft", " ">>}
    IN  /\ InitStore({EmptyStore}, {{}})
        /\ overlap = FALSE
        /\ \E fn \in {"checkDuplicate", "findDuplicate", "normalizeDocumentType",
                      "extractMeasurements", "calculateSimilarity"} :
            call \in {[fn |-> fn, in |-> in, out |-> <<>>, returned |-> FALSE] :
                         in \in IF fn = "checkDuplicate"
                                THEN ExistingDocs \X NewAnalyses
                                ELSE IF fn = "findDuplicate"
                                THEN DocLists \X NewAnalyses
                                ELSE IF fn = "normalizeDocumentType"
                                THEN RawTypes
                                ELSE IF fn = "extractMeasurements"
                                THEN KeyValueRecords
                                ELSE Texts \X Texts}

Intake(p) ==
    \/ ReceiveDocument(p)
    \/ IntakeFind(p)
    \/ IntakePendCreate(p)
    \/ IntakePendUpdate(p)
    \/ IntakeDocCreate(p)

Callback(p) ==
    \/ CallbackFind(p)
    \/ CallbackCancel(p)
    \/ CallbackAddCreate(p)
    \/ CallbackAddDelete(p)
    \/ CallbackReplaceFind(p)
    \/ CallbackGoneDelete(p)
    \/ CallbackReplaceUpdate(p)
    \/ CallbackReplaceDelete(p)

Batch(p) ==
    \/ BatchStart(p)
    \/ BatchStartCount(p)
    \/ BatchStartCreate(p)
    \/ BatchCancel(p)
    \/ BatchCancelDelete(p)
    \/ BatchDone(p)
    \/ BatchDoneMarker(p)
    \/ BatchDoneClear(p)
    \/ BatchDoneForward(p)
    \/ ReceivePhoto(p)
    \/ PhotoFind(p)
    \/ AddToBatch(p)
    \/ AddToBatchCount(p)

Diary(p) ==
    \/ SetUserState(p)
    \/ SetUserStateCreate(p)
    \/ ReceiveText(p)
    \/ ClearUserState(p)

\* submissions, the decisions on them, the web application and time
Next ==
    \/ \E p \in Procs : Intake(p) \/ Callback(p) \/ Return(p)
    \/ DeleteDocument
    \/ Tick

\* submissions and the decisions on them while no document is deleted (the
\* colliding document of a decision is then never gone)
FullNext ==
    \E p \in Procs :
        \/ Intake(p)
        \/ CallbackFind(p)
        \/ CallbackCancel(p)
        \/ CallbackAddCreate(p)
        \/ CallbackAddDelete(p)
        \/ CallbackReplaceFind(p)
        \/ CallbackReplaceUpdate(p)
        \/ CallbackReplaceDelete(p)
        \/ Return(p)

\* the batch collector, the diary's input state and the submissions
BatchNext == \E p \in Procs : Batch(p) \/ Diary(p) \/ Intake(p) \/ Return(p)

\* every handler of the webhook, with services that may throw
FailNext ==
    \/ \E p \in Procs :
          \/ Batch(p) \/ Diary(p) \/ Intake(p) \/ Callback(p) \/ Return(p)
          \/ Fail(p) \/ FailAtStart(p) \/ NotifyFails(p)
    \/ DeleteDocument

\* the webhook with the messages of users who are not allowed
AccessNext ==
    \/ \E p \in Procs : Intake(p) \/ Callback(p) \/ Return(p) \/ RefuseMessage(p)
    \/ DeleteDocument

\* overlapping webhook invocations
Spec == Init /\ [][Next]_vars
\* invocations handled one after another, senders on and off the allow-list
AccessSpec == SeqInit /\ [][AccessNext]_vars

\* the photos of albums, in overlapping invocations
MediaNext ==
    \E p \in Procs :
        \/ MediaGroupPhoto(p)
        \/ MediaGroupCount(p)
        \/ MediaGroupFind(p)
        \/ MediaGroupDelete(p)
        \/ MediaGroupSave(p)
        \/ Return(p)

MediaSpec == Init /\ [][MediaNext]_vars
\* webhook invocations handled one after another
SeqSpec == SeqInit /\ [][Next]_vars
\* invocations handled one after another, on a store with more documents in
\* the window than the candidate pool takes
FullSpec == FullInit /\ [][FullNext]_vars
\* overlapping invocations of the batch collector
BatchSpec == BatchInit /\ [][BatchNext]_vars
\* the batch collector with its invocations handled one after another
SeqBatchSpec == SeqBatchInit /\ [][BatchNext]_vars
\* invocations handled one after another, with services that may throw
FailSpec == FailInit /\ [][FailNext]_vars
PureNext ==
    \/ ApplyCheckDuplicate
    \/ ApplyFindDuplicate
    \/ ApplyNormalize
    \/ ApplyExtractMeasurements
    \/ ApplyCalculateSimilarity

\* the library functions, each applied to one input
PureSpec == PureInit /\ [][PureNext]_vars

(***************************************************************************)
(* Properties.                                                             *)
(***************************************************************************)
\* handler p has finished a request of the given kind and not yet returned
Finished(p, kind) == pc[p] = "done" /\ loc[p].kind = kind

\* the handler in slot p takes this step
StepOf(p) == pc'[p] # pc[p]

\* p's request touched neither Documents nor Pending Decisions
NoMutation(p) ==
    /\ res[p].docsCreated = {} /\ res[p].docsUpdated = {}
    /\ res[p].pendCreated = {} /\ res[p].pendDeleted = {}

\* the step of p that starts a later callback for an id already attempted
LaterCallbackStep(p) ==
    /\ pc[p] = "idle" /\ pc'[p] # "idle"
    /\ loc'[p].kind = "callback" /\ ~res'[p].first

\* a later callback ends at once, reports expired and leaves the store as it is
LaterCallbackExpires(p) ==
    /\ pc'[p] = "done"
    /\ res'[p].out = {"expired"}
    /\ documents' = documents
    /\ measurements' = measurements
    /\ pendingDocument' = pendingDocument

\* C1 as stated: callbacks handled one after another; the first callback for
\* a Pending Decision id succeeds (added, replaced or cancelled), and every
\* later callback for that id reports expired and changes neither Documents
\* nor Pending Decisions.
C1_FirstSucceedsLaterExpire ==
    /\ [](\A p \in Procs :
            Finished(p, "callback") /\ res[p].first =>
                res[p].out \cap {"added", "replaced", "cancelled"} # {})
    /\ [][\A p \in Procs : LaterCallbackStep(p) => LaterCallbackExpires(p)]_vars

\* C1 amended: callbacks handled one after another; the first callback for a
\* Pending Decision id resolves it: it reports added, replaced or cancelled,
\* or, for replace-existing whose colliding Document was deleted, that the
\* document is gone, and in each case the decision row is deleted; every
\* later callback for that id reports expired and changes neither Documents
\* nor Pending Decisions.
C1_FirstResolvesLaterExpire ==
    /\ [](\A p \in Procs :
            Finished(p, "callback") /\ res[p].first =>
                /\ \/ res[p].out = {IF loc[p].action = "add" THEN "added"
                                    ELSE IF loc[p].action = "cancel" THEN "cancelled"
                                    ELSE "replaced"}
                   \/ /\ res[p].out = {"gone"}
                      /\ loc[p].action = "replace" /\ res[p].goneBefore
                /\ res[p].pendDeleted = {loc[p].pendingId}
                /\ loc[p].pendingId \notin PendingIds)
    /\ [][\A p \in Procs : LaterCallbackStep(p) => LaterCallbackExpires(p)]_vars

\* a second callback for a decision already resolved has reported expired
C1_Witness ==
    \E p \in Procs :
        /\ Finished(p, "callback") /\ ~res[p].first
        /\ loc[p].action = "add" /\ res[p].out = {"expired"}
        /\ loc[p].pendingId \notin PendingIds

\* the requests that created or overwrote a Document for decision id
MutatorsOf(id) == {r \in 1..MaxRequests : <<id, r>> \in hist.mutated}

\* C2: of the overlapping callbacks for one Pending Decision id at most one
\* creates or overwrites a Document, and a callback for an id whose Document
\* mutation another callback has made reports expired.
C2_AtMostOneMutates ==
    /\ \A id \in PromptedIds : Cardinality(MutatorsOf(id)) <= 1
    /\ \A p \in Procs :
           Finished(p, "callback")
           /\ MutatorsOf(loc[p].pendingId) \ {loc[p].req} # {}
           => res[p].out = {"expired"} /\ NoMutation(p)

\* C4: every callback for a Pending Decision whose expiry timestamp has
\* passed reports expired and creates, overwrites or deletes no Document.
C4_ExpiredTreatedAsMissing ==
    \A p \in Procs :
        Finished(p, "callback") /\ res[p].expired =>
            /\ res[p].out = {"expired"}
            /\ res[p].docsCreated = {} /\ res[p].docsUpdated = {}

\* the step of p that persists a Pending Decision
PendCreateStep(p) == pc[p] = "in_pend_create" /\ StepOf(p)

\* C5: a submission that reached the duplicate check ends in exactly one of
\* two outcomes: with a duplicate reported, exactly one Pending Decision,
\* which references the reported document's id, is persisted and no Document
\* is created; otherwise exactly one Document is created and no Pending
\* Decision is persisted.
C5_IntakeOutcome ==
    /\ [](\A p \in Procs :
            pc[p] = "done" /\ res[p].checked =>
                IF loc[p].duplicate.found
                THEN /\ Cardinality(res[p].pendCreated) = 1
                     /\ res[p].docsCreated = {}
                     /\ "prompt" \in res[p].out /\ "saved" \notin res[p].out
                ELSE /\ Cardinality(res[p].docsCreated) = 1
                     /\ res[p].pendCreated = {}
                     /\ res[p].out = {"saved"})
    /\ [][\A p \in Procs : PendCreateStep(p) =>
            \E id \in (DOMAIN pendingDocument') \ PendingIds :
                /\ DOMAIN pendingDocument' = PendingIds \cup {id}
                /\ res'[p].pendCreated = {id}
                /\ pendingDocument'[id].duplicateId = loc[p].duplicate.document
                /\ loc[p].duplicate.found
                /\ documents' = documents]_vars

\* a submission has ended with a Pending Decision on a reported duplicate
C5_Witness ==
    \E p \in Procs :
        /\ pc[p] = "done" /\ res[p].checked /\ loc[p].duplicate.found
        /\ \E id \in res[p].pendCreated :
               /\ id \in PendingIds
               /\ pendingDocument[id].duplicateId = loc[p].duplicate.document
               /\ pendingDocument[id].duplicateId \in DocIds

\* C7: replace-existing on a Pending Decision whose colliding Document was
\* deleted before the resolution reports that the document to replace is
\* gone, leaves no row of the stale decision, and creates or modifies no
\* Document.
C7_ReplaceGone ==
    \A p \in Procs :
        Finished(p, "callback") /\ loc[p].action = "replace" /\ res[p].goneBefore =>
            /\ "gone" \in res[p].out
            /\ res[p].out \cap {"replaced", "added", "cancelled", "expired"} = {}
            /\ loc[p].pendingId \notin PendingIds
            /\ res[p].docsCreated = {} /\ res[p].docsUpdated = {}

\* a replace-existing has found its document gone and removed the decision
C7_Witness ==
    \E p \in Procs :
        /\ Finished(p, "callback") /\ loc[p].action = "replace"
        /\ res[p].goneBefore /\ res[p].out = {"gone"}
        /\ res[p].pendDeleted = {loc[p].pendingId}

\* a step of a callback of p that resolves by cancel or replace-existing, or
\* that ends in the expired outcome
FrameStep(p) ==
    /\ StepOf(p) /\ loc'[p].kind = "callback"
    /\ \/ loc'[p].action \in {"cancel", "replace"}
       \/ "expired" \in res'[p].out

\* C8: no step of a resolution by cancel or by replace-existing, and no step
\* ending in the expired outcome, creates or deletes a Document or creates,
\* changes or deletes a Measurement; a step of a cancel leaves every field of
\* every Document unchanged.
C8_Frame ==
    [][\A p \in Procs : FrameStep(p) =>
            /\ DOMAIN documents' = DOMAIN documents
            /\ measurements' = measurements
            /\ (loc'[p].action = "cancel" \/ "expired" \in res'[p].out
                    => documents' = documents)]_vars

\* a replace-existing has overwritten its document, whose measurements stay
C8_Witness ==
    \E p \in Procs :
        /\ Finished(p, "callback") /\ loc[p].action = "replace"
        /\ res[p].out = {"replaced"} /\ res[p].docsUpdated # {}
        /\ documents[loc[p].pending.duplicateId].title =
               loc[p].pending.documentData.title

\* the add-as-new of p left exactly one additional Document, with the
\* measurements extracted from the payload, and no row of the decision
AddedExactlyOne(p) ==
    \E d \in res[p].docsCreated :
        /\ res[p].docsCreated = {d}
        /\ d \notin res[p].docsBefore
        /\ DocIds = res[p].docsBefore \cup {d}
        /\ MeasurementsOfDoc(d) =
               MeasurementRows(d,
                   extractMeasurements(loc[p].pending.documentData.keyValues),
                   documents[d].date)
        /\ loc[p].pendingId \notin PendingIds
        /\ res[p].out = {"added"}

\* C6 as stated: whenever the store holds a Document with the doctor and the
\* calendar day of the submitted document, intake persists a Pending
\* Decision and creates no Document; add-as-new on the decision then leaves
\* exactly one additional Document, with the measurements extracted from the
\* payload, and no Pending Decision for it.
C6_StoreCollisionHeld ==
    \A p \in Procs :
        /\ pc[p] = "done" /\ res[p].checked /\ res[p].sameDoctorDay =>
               Cardinality(res[p].pendCreated) = 1 /\ res[p].docsCreated = {}
        /\ Finished(p, "callback") /\ loc[p].action = "add" /\ res[p].first =>
               AddedExactlyOne(p)

\* C6 amended: whenever the candidate pool of the submission (the TakeCap
\* most recent Documents dated within WindowDays days of it) holds a Document
\* with its doctor and calendar day, intake persists a Pending Decision and
\* creates no Document; add-as-new on the decision then leaves exactly one
\* additional Document, with the measurements extracted from the payload,
\* and no Pending Decision for it.
C6_PoolCollisionHeld ==
    \A p \in Procs :
        /\ pc[p] = "done" /\ res[p].checked /\ res[p].inPool =>
               Cardinality(res[p].pendCreated) = 1 /\ res[p].docsCreated = {}
        /\ Finished(p, "callback") /\ loc[p].action = "add" /\ res[p].first =>
               AddedExactlyOne(p)

\* a decision on a same-doctor-same-day collision was resolved by add-as-new:
\* the new Document carries a measurement, the colliding one is still there
C6_Witness ==
    \E p \in Procs :
        /\ Finished(p, "callback") /\ loc[p].action = "add"
        /\ res[p].out = {"added"}
        /\ loc[p].pending.duplicateId \in res[p].docsBefore
        /\ \E d \in res[p].docsCreated :
               /\ MeasurementsOfDoc(d) # {}
               /\ SameDoctorDay(documents[loc[p].pending.duplicateId],
                                 documents[d], documents[d].date)

\* the requests to which page row id was handed for analysis
ForwardersOf(id) == {r \in 1..MaxRequests : <<id, r>> \in hist.forwarded}

\* C3: of the overlapping finish requests on one Batch Session at most one
\* obtains a non-empty page list and hands it to analysis: no page is
\* forwarded by two requests.
C3_OneForward ==
    \A id \in 1..(nextId.batch - 1) : Cardinality(ForwardersOf(id)) <= 1

\* C9: in every reachable state a conversation has at most one session
\* marker record.
C9_OneMarker ==
    \A chat \in Chats : Cardinality(MarkerRows(chat)) <= 1

\* C10: start on an Active Batch Session reports the current number of
\* pages of the session and creates no second session.
C10_StartIdempotent ==
    \A p \in Procs :
        Finished(p, "start") /\ res[p].markerSeen =>
            /\ res[p].out = {"already"}
            /\ res[p].count = res[p].pagesSeen
            /\ res[p].batchCreated = {}

\* the request that submitted page row r; the pages of a session that was
\* already Active were received before every request, in the order of their ids
ReceiptOf(r) ==
    IF \E q \in 1..MaxRequests : <<r.id, q>> \in hist.submitted
    THEN CHOOSE q \in 1..MaxRequests : <<r.id, q>> \in hist.submitted
    ELSE 0

ReceivedBefore(a, b) ==
    \/ ReceiptOf(a) < ReceiptOf(b)
    \/ ReceiptOf(a) = ReceiptOf(b) /\ a.id < b.id

\* C11: finish on a Batch Session with pages hands exactly those pages, each
\* once, to one analyzer call in the order in which the page submissions
\* were received (oldest first), for every interleaving of the addPage
\* requests.
C11_ForwardsInReceiptOrder ==
    \A p \in Procs :
        loc[p].kind = "finish" /\ pc[p] = "in_find" =>
            LET pages == loc[p].pages
            IN  /\ Len(pages) = loc[p].pageCount
                /\ \A k \in DOMAIN pages : loc[p].req \in ForwardersOf(pages[k].id)
                /\ \A k, l \in DOMAIN pages :
                       k < l => ReceivedBefore(pages[k], pages[l])

\* the rows a finish request read as pages hold no page
ZeroPages(p) ==
    \A k \in DOMAIN loc[p].pages : loc[p].pages[k].fileUrl.scheme # BlobUrl

\* C12: cancel, and finish on a session without pages, hand nothing to the
\* analyzer and create neither a Document nor a Pending Decision; on an
\* Active session they report the teardown, and with no session at all they
\* only report that there is nothing to cancel / nothing to process.
C12_TeardownWithoutHandoff ==
    \A p \in Procs :
        /\ Finished(p, "cancel") =>
               /\ res[p].docsCreated = {} /\ res[p].pendCreated = {}
               /\ ~res[p].markerSeen /\ res[p].pagesSeen = 0 =>
                      res[p].out = {"nothing"} /\ res[p].batchDeleted = {}
        /\ Finished(p, "finish") /\ ZeroPages(p) =>
               /\ res[p].docsCreated = {} /\ res[p].pendCreated = {}
               /\ res[p].out = IF res[p].markerSeen THEN {"empty"} ELSE {"nothing"}
               /\ ~res[p].markerSeen => res[p].batchDeleted = {}

\* C13: while the conversation's Batch Session is Active every photo, and
\* every image or PDF sent as a file, is appended to the session as a page
\* and is not processed as a document of its own; a page record is created
\* only while a session is Active.
C13_SubmissionsJoinSession ==
    \A p \in Procs :
        loc[p].kind \in {"photo", "document"} =>
            /\ res[p].markerSeen =>
                   /\ loc[p].analysis = NoAnalysis
                   /\ res[p].docsCreated = {} /\ res[p].pendCreated = {}
                   /\ pc[p] = "done" => res[p].batchCreated # {}
            /\ res[p].batchCreated # {} => res[p].markerSeen

\* C14: whatever fails inside a webhook invocation (file download, blob
\* upload, analysis, record store, the outbound notification itself), no
\* exception escapes the handler: the invocation ends by returning its
\* acknowledgment.
C14_AlwaysAcknowledged ==
    \A p \in Procs :
        /\ pc[p] # "crashed"
        /\ res[p].failed # "" => pc[p] = "done"

\* a Document was stored, the message about it threw, and the error message
\* of the handler's catch threw as well
C14_Witness ==
    \E p \in Procs :
        /\ Finished(p, "photo")
        /\ res[p].failed = "messenger"
        /\ res[p].out = {}
        /\ res[p].docsCreated # {}

\* C15: a failure of the analyzer does not lose the submission: intake
\* still produces a Document or a Pending Decision (from the fallback
\* result "other/other, needs manual review").
C15_AnalyzerFailureKeepsSubmission ==
    \A p \in Procs :
        pc[p] = "done" /\ res[p].failed = "analyzer" =>
            res[p].docsCreated \cup res[p].pendCreated # {}

\* the rules of the duplicate check as the specification words them
SameDoctorAndDay(e, n) ==
    /\ ~Falsy(e.doctor) /\ ~Falsy(n.doctor)
    /\ Trim(ToLower(e.doctor)) = Trim(ToLower(n.doctor))
    /\ ToDateString(e.date) = ToDateString(ParseDate(n.date))
ConclusionSimilarity(e, n) == calculateSimilarity(e.conclusion, n.conclusion)
KeyValueOverlap(e, n) == compareKeyValues(e.keyValues, n.keyValues)
TitleSimilarity(e, n) == calculateSimilarity(e.title, n.title)

Match(r, reason, confidence) ==
    r.isDuplicate /\ r.reason = reason /\ r.confidence = confidence

\* C16: checkDuplicate returns the result of the first qualifying rule in
\* the order (1) same doctor and same calendar day, confidence 0.9,
\* (2) conclusion similarity >= 0.7, (3) key-value overlap >= 0.8, (4) title
\* similarity >= 0.5, each with its own reason and confidence; when no rule
\* qualifies the result is not-a-duplicate with empty reason, confidence 0.
C16_FirstQualifyingRule ==
    call.fn = "checkDuplicate" /\ call.returned =>
        LET e == call.in[1]
            n == call.in[2]
            r == call.out
        IN  IF SameDoctorAndDay(e, n) THEN Match(r, "doctor", Frac(9, 10))
            ELSE IF FracGE(ConclusionSimilarity(e, n), 7, 10)
            THEN Match(r, "conclusion", ConclusionSimilarity(e, n))
            ELSE IF FracGE(KeyValueOverlap(e, n), 8, 10)
            THEN Match(r, "keyValues", KeyValueOverlap(e, n))
            ELSE IF FracGE(TitleSimilarity(e, n), 5, 10)
            THEN Match(r, "title", TitleSimilarity(e, n))
            ELSE ~r.isDuplicate /\ r.reason = "" /\ r.confidence = Frac(0, 1)

\* every rule qualifies, the conclusions are even closer than 0.9, and the
\* answer is the doctor's rule
C16_Witness ==
    /\ call.fn = "checkDuplicate" /\ call.returned
    /\ SameDoctorAndDay(call.in[1], call.in[2])
    /\ FracGE(ConclusionSimilarity(call.in[1], call.in[2]), 7, 10)
    /\ FracGE(KeyValueOverlap(call.in[1], call.in[2]), 8, 10)
    /\ FracGE(TitleSimilarity(call.in[1], call.in[2]), 5, 10)
    /\ Match(call.out, "doctor", Frac(9, 10))

\* the positions of the documents of a list that checkDuplicate reports
HitsOf(docs, n) == {k \in DOMAIN docs : checkDuplicate(docs[k], n).isDuplicate}

\* C17: findDuplicate returns the first document, in the order the caller
\* supplied, for which checkDuplicate reports a duplicate, with that
\* document's reason and confidence, even if a later document would match
\* with higher confidence; it returns null when none matches.
C17_FirstMatch ==
    call.fn = "findDuplicate" /\ call.returned =>
        LET docs == call.in[1]
            n == call.in[2]
            hits == HitsOf(docs, n)
        IN  IF hits = {} THEN call.out = NoMatch
            ELSE LET k == CHOOSE k \in hits : \A j \in hits : k <= j
                     r == checkDuplicate(docs[k], n)
                 IN  /\ call.out.found
                     /\ call.out.document = docs[k].id
                     /\ call.out.reason = r.reason
                     /\ call.out.confidence = r.confidence

\* the document returned matches by its title, a later one by doctor and day
C17_Witness ==
    /\ call.fn = "findDuplicate" /\ call.returned
    /\ call.out.found
    /\ call.out.reason = "title"
    /\ \E j \in HitsOf(call.in[1], call.in[2]) :
           /\ j > call.out.document
           /\ checkDuplicate(call.in[1][j], call.in[2]).confidence = Frac(9, 10)
           /\ ~FracGE(call.out.confidence, 9, 10)

\* the subtype values of the taxonomy, and the categories that list a subtype
SubtypeValues == {ALL_SUBTYPES[i].value : i \in DOMAIN ALL_SUBTYPES}
CategoriesListing(subtype) ==
    {CATEGORY_SUBTYPES[i].category : i \in
        {j \in DOMAIN CATEGORY_SUBTYPES :
            \E k \in DOMAIN CATEGORY_SUBTYPES[j].subtypes :
                CATEGORY_SUBTYPES[j].subtypes[k] = subtype}}

\* C18: for every valid subtype value s and every category string c,
\* normalizeDocumentType(c, s) returns subtype s together with the category
\* that lists s, whatever c is.
C18_SubtypeOverridesCategory ==
    call.fn = "normalizeDocumentType" /\ call.returned
    /\ call.in[2] \in SubtypeValues =>
        /\ call.out.subtype = call.in[2]
        /\ CategoriesListing(call.in[2]) = {call.out.category}

\* a subtype of the studies sent under the category of the analyses
C18_Witness ==
    /\ call.fn = "normalizeDocumentType" /\ call.returned
    /\ call.in[1] = CatAnalyses
    /\ call.in[2] \in SubtypeValues
    /\ call.out.category = CatStudies

\* C19: the (category, subtype) normalizeDocumentType returns is always a
\* valid pair of the taxonomy: the subtype is one of the subtypes listed
\* under the returned category.
C19_ValidPair ==
    call.fn = "normalizeDocumentType" /\ call.returned =>
        call.out.category \in CategoriesListing(call.out.subtype)

\* the keywords normalizeDocumentType looks for
Stems ==
    {<<"z", "a", "k", "l", "yu", "ch", "e", "n">>,
     <<"k", "o", "n", "s", "u", "l", "soft", "t", "a", "c">>,
     <<"v", "y", "p", "i", "s">>,
     <<"a", "n", "a", "l", "i", "z">>,
     <<"k", "r", "o", "v", "soft">>,
     <<"m", "o", "ch">>,
     <<"i", "s", "s", "l", "e", "d", "o", "v", "a", "n">>,
     <<"u", "z", "i">>,
     <<"k", "t">>,
     <<"m", "r", "t">>,
     <<"o", "s", "m", "o", "t", "r">>,
     <<"p", "r", "i", "yo", "m">>,
     <<"p", "r", "i", "e", "m">>,
     <<"eh", "p", "i", "k", "r", "i", "z">>,
     <<"p", "s", "a">>,
     <<"o", "n", "k", "o", "m", "a", "r", "k", "e", "r">>,
     <<"b", "i", "o", "h", "i", "m">>,
     <<"o", "a", "k">>,
     <<"g", "e", "m", "o", "g", "l", "o", "b", "i", "n">>,
     <<"g", "i", "s", "t", "o", "l", "o", "g">>,
     <<"b", "i", "o", "p", "s", "i">>,
     <<"u", "l", "soft", "t", "r", "a", "z", "v", "u", "k">>,
     <<"p", "eh", "t">>,
     <<"p", "e", "t", "-", "k", "t">>,
     <<"_p", "_e", "_t">>,
     <<"k", "o", "m", "p", "soft", "yu", "t", "e", "r", "n">>,
     <<"m", "a", "g", "n", "i", "t", "n">>,
     <<"r", "e", "n", "t", "g", "e", "n">>,
     <<"eh", "k", "g">>,
     <<"eh", "n", "d", "o", "s", "k", "o", "p">>,
     <<"k", "o", "l", "o", "n", "o", "s", "k", "o", "p">>}

\* a string that is no value of the taxonomy and holds no keyword
Unmatched(raw) ==
    LET x == LowerTrimOrEmpty(raw)
    IN  /\ x \notin SubtypeValues
        /\ \A i \in DOMAIN DOCUMENT_CATEGORIES : DOCUMENT_CATEGORIES[i] # x
        /\ \A stem \in Stems : ~Includes(x, stem)

\* C20: for every (category, subtype) in which neither string matches a
\* taxonomy value or a keyword rule, empty and missing strings included,
\* normalizeDocumentType returns other/other.
C20_UnknownIsOther ==
    call.fn = "normalizeDocumentType" /\ call.returned
    /\ Unmatched(call.in[1]) /\ Unmatched(call.in[2]) =>
        call.out = [category |-> Other, subtype |-> Other]

\* a category that says nothing and a missing subtype
C20_Witness ==
    /\ call.fn = "normalizeDocumentType" /\ call.returned
    /\ Unmatched(call.in[1]) /\ call.in[1] \notin {Null, <<>>}
    /\ call.in[2] = Null
    /\ call.out = [category |-> Other, subtype |-> Other]

\* what the measurement of a single pair is expected to carry: the metric the
\* key resolves to, the number its value starts with and the unit
RECURSIVE Pow10(_)
Pow10(e) == IF e = 0 THEN 1 ELSE 10 * Pow10(e - 1)
Below(value, bound) == value.m < bound * Pow10(value.e)
Hemoglobin == <<"G", "e", "m", "o", "g", "l", "o", "b", "i", "n">>
SinglePair ==
    /\ call.fn = "extractMeasurements"
    /\ call.returned
    /\ call.in # NullKV
    /\ Len(call.in) = 1
    /\ getMetricConfig(call.in[1][1]) \in
           {METRICS_CONFIG[i] : i \in DOMAIN METRICS_CONFIG}
    /\ parseValueWithUnit(call.in[1][2]).ok

\* C21: extractMeasurements stores a hemoglobin value below 30 in the unit of
\* hemoglobin multiplied by 10, and stores a hemoglobin value of 30 or more
\* and every value of another metric as parsed.
C21_HemoglobinCorrection ==
    SinglePair =>
        LET parsed == parseValueWithUnit(call.in[1][2])
            config == getMetricConfig(call.in[1][1])
            unit == IF parsed.unit = <<>> THEN config.unit ELSE parsed.unit
            misread == /\ config.name = Hemoglobin
                       /\ unit = config.unit
                       /\ Below(parsed.value, 30)
        IN  /\ Len(call.out) = 1
            /\ call.out[1].value =
                   IF misread
                   THEN Normalize(10 * parsed.value.m, parsed.value.e)
                   ELSE parsed.value

\* the catalog metrics a key names: by its key, or by its key or an alias
\* when case and surrounding spaces are ignored
MetricsNamedBy(key) ==
    {i \in DOMAIN METRICS_CONFIG :
        \/ METRICS_CONFIG[i].name = key
        \/ ToLower(METRICS_CONFIG[i].name) = Trim(ToLower(key))
        \/ \E j \in DOMAIN METRICS_CONFIG[i].aliases :
               ToLower(METRICS_CONFIG[i].aliases[j]) = Trim(ToLower(key))}
\* the names and units expected for a record, pair by pair
RECURSIVE ExpectedMeasurements(_)
ExpectedMeasurements(kvs) ==
    IF kvs = <<>> THEN <<>>
    ELSE LET hits == MetricsNamedBy(Head(kvs)[1])
             parsed == parseValueWithUnit(Head(kvs)[2])
             config == METRICS_CONFIG[CHOOSE i \in hits : \A j \in hits : i <= j]
         IN  (IF hits = {} \/ ~parsed.ok THEN <<>>
              ELSE << [name |-> config.name,
                       unit |-> IF parsed.unit = <<>> THEN config.unit
                                ELSE parsed.unit] >>)
             \o ExpectedMeasurements(Tail(kvs))

\* C22: extractMeasurements returns, in the order of the pairs, one
\* measurement for each pair whose key names a catalog metric and whose
\* value starts with a number, under the catalog key and with the catalog
\* unit when the value has none; every other pair is skipped, and a null
\* record gives the empty list.
C22_OnePerTrackedKey ==
    (call.fn = "extractMeasurements" /\ call.returned) =>
        [i \in DOMAIN call.out |->
            [name |-> call.out[i].name, unit |-> call.out[i].unit]]
        = IF call.in = NullKV THEN <<>> ELSE ExpectedMeasurements(call.in)

\* p has finished a replace-existing on a decision whose colliding Document
\* was in the store
ReplacedExisting(p) ==
    /\ Finished(p, "callback") /\ loc[p].action = "replace"
    /\ loc[p].pending.id # 0 /\ loc[p].pending.duplicateId # 0
    /\ ~res[p].goneBefore

\* C23: after a replace-existing on a decision whose colliding Document
\* exists, that Document carries every field of the payload under its old
\* id, the store holds the same Documents as before, the decision row is
\* gone and the callback reported the replacement of that id.
C23_ReplaceOverwrites ==
    \A p \in Procs :
        ReplacedExisting(p) =>
            LET id == loc[p].pending.duplicateId
                docData == loc[p].pending.documentData
            IN  /\ DocIds = res[p].docsBefore
                /\ id \in DocIds
                /\ documents[id].id = id
                /\ documents[id].date = ParseDate(docData.date)
                /\ documents[id].category = docData.category
                /\ documents[id].subtype = docData.subtype
                /\ documents[id].title = docData.title
                /\ documents[id].doctor = docData.doctor
                /\ documents[id].conclusion = docData.conclusion
                /\ documents[id].keyValues = docData.keyValues
                /\ documents[id].content = docData.content
                /\ documents[id].fileUrl = docData.fileUrl
                /\ loc[p].pendingId \notin PendingIds
                /\ res[p].out = {"replaced"}
                /\ res[p].docsUpdated = {id}

\* C24: a resolution by add-as-new or replace-existing in which an operation
\* failed has either both mutated a Document and deleted the decision row,
\* or done neither.
C24_NeverHalfResolved ==
    \A p \in Procs :
        /\ Finished(p, "callback") /\ res[p].failed # ""
        /\ loc[p].action \in {"add", "replace"}
        => (res[p].docsCreated \cup res[p].docsUpdated # {}
                <=> loc[p].pendingId \in res[p].pendDeleted)

C26_DateFallsBackToNow ==
    \A p \in Procs :
        Finished(p, "document") /\ "unrecognized" \notin res[p].out =>
            /\ "error" \notin res[p].out
            /\ loc[p].docDate.valid
            /\ IF loc[p].analysis.date.k = "iso"
               THEN loc[p].docDate = DateOf(loc[p].analysis.date.ts)
               ELSE loc[p].docDate.ts \in 0..now

\* C27: the input-state records of the diary do not change what the batch
\* collector does.  With no session marker in the conversation 'start'
\* creates the session, and 'cancel' and 'finish' report that nothing is
\* collected and delete nothing; 'start' on a session counts its pages only,
\* and only page records are read as the pages of a 'finish'.
C27_StateRecordsIgnored ==
    \A p \in Procs :
        /\ Finished(p, "start") =>
               IF res[p].markerSeen
               THEN res[p].count = res[p].pagesSeen
               ELSE res[p].out = {"started"} /\ res[p].batchCreated # {}
        /\ Finished(p, "cancel") /\ ~res[p].markerSeen =>
               res[p].out = {"nothing"} /\ res[p].batchDeleted = {}
        /\ Finished(p, "finish") /\ ~res[p].markerSeen =>
               res[p].out = {"nothing"} /\ res[p].batchDeleted = {}
        /\ loc[p].kind = "finish" =>
               \A k \in DOMAIN loc[p].pages :
                   loc[p].pages[k].fileUrl.scheme = BlobUrl

\* C28: no step of the handler of an update sent by a user who is not on the
\* allow-list, a message or a press of a button, creates, overwrites or
\* deletes a Document, a Pending Decision or a batch record.
C28_StrangersChangeNothing ==
    [][\A p \in Procs :
          /\ StepOf(p)
          /\ loc'[p].user # 0 /\ ~isUserAllowed(loc'[p].user)
          => /\ documents' = documents
             /\ pendingDocument' = pendingDocument
             /\ batchPending' = batchPending]_vars

\* C30: the similarity of two texts is a score between 0 and 1 that is the
\* same in both directions, and the confidence of every verdict of
\* checkDuplicate lies between 0 and 1.
C30_SimilaritySymmetricInUnit ==
    /\ call.fn = "calculateSimilarity" /\ call.returned =>
           LET swapped == calculateSimilarity(call.in[2], call.in[1])
           IN  /\ 0 <= call.out[1] /\ call.out[1] <= call.out[2]
               /\ call.out[1] * swapped[2] = swapped[1] * call.out[2]
    /\ call.fn = "checkDuplicate" /\ call.returned =>
           /\ 0 <= call.out.confidence[1]
           /\ call.out.confidence[1] <= call.out.confidence[2]

(***************************************************************************)
(* Media groups.                                                           *)
(***************************************************************************)
\* every request has been received and every handler has returned
AllReturned == nreq = MaxRequests /\ \A p \in Procs : pc[p] = "idle"

\* C29: for every media group whose photos arrive as separate, possibly
\* overlapping requests, exactly one request becomes the leader, exactly one
\* Document holding all photos of the group is created, and no pending row
\* of the group remains.  Stated of the state in which every request has
\* returned, for the groups whose processing met no error.
C29_OneLeaderOneDocument ==
    AllReturned =>
        \A g \in Chats :
            LET photos == {ph[2] : ph \in {x \in hist.photos : x[1] = g}}
                leaders == {l \in hist.leaders : l[1] = g}
                albums == {a \in hist.albums : a.mediaGroupId = g}
            IN  (photos # {} /\ \A a \in albums : a.document # 0) =>
                    /\ Cardinality(leaders) = 1
                    /\ Cardinality(albums) = 1
                    /\ \A a \in albums :
                        /\ a.pages = photos
                        /\ a.document \in DOMAIN documents
                        /\ documents[a.document].content = Cardinality(photos)
                    /\ GroupRows(g) = {}

=============================================================================
